---- MODULE Spec2Model ----
(***************************************************************************)
(* VibeVault: the vault store with soft-delete and per-row sync_version,   *)
(* the last-writer-wins merge, the iOS vault views and AuthService, and    *)
(* the desktop session (App.tsx against the Tauri backend).                *)
(*                                                                         *)
(* The Rust backend (vibevault-desktop/src-tauri) and the merge are not    *)
(* among the source files; they are modelled from spec.md sections 4.2,    *)
(* 4.3 and 4.8.  Everything else is translated from the Swift and          *)
(* TypeScript sources.                                                     *)
(***************************************************************************)
EXTENDS Integers, Sequences, FiniteSets, TLC

VARIABLES
    store,          \* device -> sequence of vault_entries rows (row id = index)
    now,            \* the wall clock the timestamps are taken from
    entries,        \* VaultListView.entries: the DisplayEntry copies last loaded
    selectedEntry,  \* VaultListView.selectedEntry: <<>> or <<copy>> shown in EntryDetailView
    lastSync,       \* the sync_log row of the last sync, cleared by a local mutation
    mstore,         \* merge harness: the receiver's rows
    lastMerge,      \* merge harness: the envelope last ingested and the version it met
    encryptionKey,  \* AuthService.encryptionKey: <<>> (nil) or <<key>>
    users,          \* iOS users table: rows [username, password], username the primary key
    authService,    \* AuthService's published isRegistered and isAuthenticated;
                    \* observed: the error its last login or unlock threw ("" if none),
                    \* and that it has logged out and not logged in with a password since
    keychain,       \* the Keychain item .encryptionKey: <<>> or <<key>>
    failures,       \* observed: consecutive failed logins per username on iOS
    clock,          \* desktop wall clock, seconds
    core,           \* desktop core: user row, sessions, unlock attempts, next token
    app,            \* App.tsx state: isRegistered, isAuthenticated, sessionToken, activityThrottle
    calls,          \* observed: the core calls of the last step, <<[op, token, result]>>
    lastTouch,      \* observed: when the app last invoked touch_activity inside the idle window
    message,        \* chunking: the Data handed to BLEProtocol.chunkData
    wire,           \* chunking: the [Chunk] chunkData returned, <<>> before the call
    reassembler,    \* chunking: the ChunkReassembler's total, chunks and receivedCount
    addResult,      \* chunking: the Result of the last addChunk
    reassembled,    \* chunking: the Result of the last reassemble()
    sync,           \* SyncOrchestrator: state, sessionKey, reassembler
    ble,            \* BLECentralManager: state, discoveredDevices, connectedPeripheral,
                    \* characteristics, receivedChunks, syncProgress
    radio,          \* CoreBluetooth: power, scan, connect request, link, reads and notifications
    sink,           \* the BLE states published to the orchestrator's sink and not yet received
    peer,           \* the desktop peripheral: its verdict on the pairing write of this link;
                    \* observed: it has sent a SyncControl byte that is no opcode
    abortReceived,  \* observed: ABORT has arrived on SyncControl over this link
    pdb,            \* desktop store: the profiles table, the active profile, the next profile id
    dash,           \* Dashboard.tsx: profiles and activeProfile as last loaded, and
                    \* observed: the outcome of the last delete_profile
    gcm,            \* CryptoService: a key, a plaintext, what encrypt returned, the
                    \* bit altered since, and the Result of the last decrypt
    listing,        \* VaultListView over rows with their blobs: the rows, the session's
                    \* key, the entries last loaded; observed: how each row came to be
    blobs,          \* device -> the data_blob and nonce of each row written there
    drawn,          \* observed: how many encryptions used each <<key, nonce>>
    totp,           \* Dashboard's TOTP display: the time, timeLeft, the code shown
    b32             \* Dashboard.handleSave on a TOTP secret: the secret and the outcome

iosAuthVars == <<users, authService, keychain, failures>>
sessionVars == <<clock, core, app, calls, lastTouch>>
vaultVars == <<store, now, entries, selectedEntry, lastSync, mstore, lastMerge, encryptionKey>>
chunkVars == <<message, wire, reassembler, addResult, reassembled>>
syncVars == <<sync, ble, radio, sink, peer, abortReceived>>
profileVars == <<pdb, dash>>
serviceVars == <<gcm, listing, blobs, drawn, totp, b32>>
commonVars == <<vaultVars, iosAuthVars, sessionVars, chunkVars, syncVars, profileVars>>
besidesGcm == <<listing, blobs, drawn, totp, b32, commonVars>>
besidesListing == <<gcm, blobs, drawn, totp, b32, commonVars>>
besidesBlobs == <<gcm, listing, totp, b32, commonVars>>
besidesTotp == <<gcm, listing, blobs, drawn, b32, commonVars>>
besidesB32 == <<gcm, listing, blobs, drawn, totp, commonVars>>
extVars == <<chunkVars, syncVars, profileVars, serviceVars>>
vars == <<vaultVars, iosAuthVars, sessionVars, extVars>>

----------------------------------------------------------------------------
\* Bounds of the model.
MaxVersion == 3
MaxTime == 2
MaxEnvVersion == 2
MaxEnvTime == 1
MaxClock == 660
MaxTokens == 2
MaxFailures == 6
MaxChunks == 3
MaxSeed == 1
MaxFrames == 2
MaxPending == 2
MaxProfiles == 3
MaxPlain == 2
MaxRows == 3
MaxNonces == 3
MaxUnix == 95
MaxSecret == 3

Devices == {"desktop", "ios"}
\* The entry the two devices share, and the entry_uuids of the merge harness.
UUIDs == {"u1"}
EnvUuids == {"u1", "u2"}
Payloads == {"p1", "p2"}
Times == 0..MaxTime

\* deleted_at IS NULL
NULL == 0 - 1

\* AuthService.activeProfileId: 1 at construction and after logout, never set otherwise.
activeProfileId == 1

\* The profiles the desktop saves entries to.
ProfileIds == {1, 2}

Usernames == {"alice", "bob"}
Passwords == {"pw1", "pw2"}

\* CryptoService.deriveEncryptionKey: the key of a password (the salt is the user's).
deriveEncryptionKey(password) == <<password>>

\* No token: invoke() without a token argument, or sessionToken "".
NoToken == 0
Tokens == 1..MaxTokens

\* Spec 4.3: inactivity lock after 10 min; rate limit after 5 failures, the
\* cooldown starting at 30 s and capped at 15 min.
IDLE_TIMEOUT == 600
MaxFailedUnlocks == 5
CooldownBase == 30
CooldownCap == 900

\* App.tsx: touchActivity is throttled to once per 30 s.
ThrottleSecs == 30

NoAttempts == [failures |-> 0, until |-> 0]

\* AuthService() and the core before registration; the vault specifications
\* run with the iOS user logged in.
InitAuthIdle ==
    /\ users = {[username |-> "alice", password |-> "pw1"]}
    /\ authService = [isRegistered |-> TRUE, isAuthenticated |-> TRUE, error |-> "",
                      loggedOut |-> FALSE]
    /\ keychain = <<>>
    /\ failures = [u \in Usernames |-> 0]

InitCore ==
    /\ clock = 0
    /\ core = [user |-> <<>>, sessions |-> {}, attempts |-> [u \in Usernames |-> NoAttempts],
               nextToken |-> 1]
    /\ calls = <<>>
    /\ lastTouch = NULL

InitApp ==
    app = [isRegistered |-> FALSE, isAuthenticated |-> FALSE, sessionToken |-> NoToken,
           activityThrottle |-> NULL]

----------------------------------------------------------------------------
\* BLE chunk framing (BLEProtocol.swift).

\* BLEProtocol.maxChunkData
maxChunkData == 493

Min2(a, b) == IF a < b THEN a ELSE b
Max2(a, b) == IF a > b THEN a ELSE b

\* Bitwise exclusive or of two n-bit numbers.
RECURSIVE BitXor(_, _, _)
BitXor(a, b, n) ==
    IF n = 0 THEN 0
    ELSE (((a % 2) + (b % 2)) % 2) + 2 * BitXor(a \div 2, b \div 2, n - 1)

XorNibble == [a \in 0..15 |-> [b \in 0..15 |-> BitXor(a, b, 4)]]
XorByte(a, b) == (16 * XorNibble[a \div 16][b \div 16]) + XorNibble[a % 16][b % 16]
Xor16(a, b) == (256 * XorByte(a \div 256, b \div 256)) + XorByte(a % 256, b % 256)

\* A UInt32 is kept as its two 16-bit halves <<high, low>>.
Xor32(a, b) == <<Xor16(a[1], b[1]), Xor16(a[2], b[2])>>
Shr1(a) == <<a[1] \div 2, (a[2] \div 2) + 32768 * (a[1] % 2)>>
Shr8(a) == <<a[1] \div 256, (a[2] \div 256) + 256 * (a[1] % 256)>>

\* 0xEDB88320 and 0xFFFFFFFF
CRC32_poly == <<60856, 33568>>
CRC32_ones == <<65535, 65535>>

RECURSIVE CRC32_entry(_, _)
CRC32_entry(crc, k) ==
    IF k = 0 THEN crc
    ELSE CRC32_entry(IF crc[2] % 2 # 0 THEN Xor32(CRC32_poly, Shr1(crc)) ELSE Shr1(crc), k - 1)

CRC32_table == [i \in 0..255 |-> CRC32_entry(<<0, i>>, 8)]

\* The loop of CRC32.compute over bytes lo..hi of data, split in halves, the
\* left one evaluated first, to keep the evaluation shallow.
RECURSIVE CRC32_fold(_, _, _, _)
CRC32_fold(data, lo, hi, crc) ==
    IF lo > hi THEN crc
    ELSE IF lo = hi
    THEN Xor32(CRC32_table[XorByte(crc[2] % 256, data[lo])], Shr8(crc))
    ELSE LET mid == (lo + hi) \div 2
             left == CRC32_fold(data, lo, mid, crc)
         IN IF left[1] >= 0 THEN CRC32_fold(data, mid + 1, hi, left) ELSE left

CRC32_compute(data) == Xor32(CRC32_fold(data, 1, Len(data), CRC32_ones), CRC32_ones)

\* struct Chunk
Chunk(index, total, crc32, data) ==
    [index |-> index, total |-> total, crc32 |-> crc32, data |-> data]

Failure(msg) == [ok |-> FALSE, value |-> msg]
Success(v) == [ok |-> TRUE, value |-> v]
NoResult == [ok |-> FALSE, value |-> "none"]

\* A variant that counts one chunk too many at the exact multiples.
chunkDataOffByOne(data) ==
    LET chunkCount == (Len(data) \div maxChunkData) + 1 IN
    [k \in 1..chunkCount |->
        LET start == (k - 1) * maxChunkData
            end == Min2(start + maxChunkData, Len(data))
            chunkData == SubSeq(data, start + 1, end)
        IN Chunk(k - 1, chunkCount, CRC32_compute(chunkData), chunkData)]

\* BLEProtocol.chunkData; the chunk counts here stay far below the UInt16 range.
chunkData(data) ==
    LET chunkCount == Max2(1, (Len(data) + maxChunkData - 1) \div maxChunkData) IN
    [k \in 1..chunkCount |->
        LET start == (k - 1) * maxChunkData
            end == Min2(start + maxChunkData, Len(data))
            chunkData == SubSeq(data, start + 1, end)
        IN Chunk(k - 1, chunkCount, CRC32_compute(chunkData), chunkData)]

\* ChunkReassembler.init: a slot is <<>> (nil) or <<Data>>.
ChunkReassembler(total) ==
    [total |-> total, chunks |-> [k \in 1..total |-> <<>>], receivedCount |-> 0]

NoReassembler == ChunkReassembler(0)

\* An addChunk that counts every delivery it accepts.
addChunkCountingEvery(r, chunk) ==
    IF chunk.total # r.total
    THEN [self |-> r, result |-> Failure("Total mismatch")]
    ELSE IF ~(chunk.index < r.total)
    THEN [self |-> r, result |-> Failure("Index out of range")]
    ELSE LET idx == chunk.index + 1
             count == r.receivedCount + 1
             after == [r EXCEPT !.receivedCount = count, !.chunks[idx] = <<chunk.data>>]
         IN [self |-> after, result |-> Success(count = r.total)]

\* ChunkReassembler.addChunk: the reassembler afterwards and the Result.
addChunk(r, chunk) ==
    IF chunk.total # r.total
    THEN [self |-> r, result |-> Failure("Total mismatch")]
    ELSE IF ~(chunk.index < r.total)
    THEN [self |-> r, result |-> Failure("Index out of range")]
    ELSE LET idx == chunk.index + 1
             count == IF r.chunks[idx] = <<>> THEN r.receivedCount + 1 ELSE r.receivedCount
             after == [r EXCEPT !.receivedCount = count, !.chunks[idx] = <<chunk.data>>]
         IN [self |-> after, result |-> Success(count = r.total)]

RECURSIVE Concat(_, _)
Concat(chunks, k) ==
    IF k > Len(chunks) THEN <<>> ELSE chunks[k][1] \o Concat(chunks, k + 1)

\* ChunkReassembler.reassemble
reassemble(r) ==
    IF r.receivedCount # r.total
    THEN Failure("Incomplete")
    ELSE IF \E k \in 1..r.total : r.chunks[k] = <<>>
    THEN Failure("Missing chunk")
    ELSE Success(Concat(r.chunks, 1))

\* The messages chunked: lengths around the multiples of maxChunkData, the
\* empty message among them, with bytes that differ from chunk to chunk.
Lens ==
    {n \in {(k * maxChunkData) + d : k \in 0..MaxChunks, d \in {0 - 1, 0, 1}} :
        n >= 0 /\ n <= MaxChunks * maxChunkData}
DataOf(len, seed) == [k \in 1..len |-> (seed + (7 * k)) % 256]

InitChunkIdle ==
    /\ message = <<>>
    /\ wire = <<>>
    /\ reassembler = NoReassembler
    /\ addResult = NoResult
    /\ reassembled = NoResult

----------------------------------------------------------------------------
\* BLE sync on iOS: SyncView, SyncOrchestrator, BLECentralManager, and the
\* CoreBluetooth events they are driven by.  The desktop peripheral is not
\* among the sources: its pairing verdict follows spec 4.7 step 3, and the
\* values it sends are any values at all.

\* Chunk.toBytes
LE16(n) == <<n % 256, n \div 256>>
toBytes(chunk) ==
    LE16(chunk.index) \o LE16(chunk.total) \o LE16(chunk.crc32[2]) \o LE16(chunk.crc32[1])
        \o chunk.data

\* Chunk.fromBytes
fromBytes(bytes) ==
    IF Len(bytes) < 8 THEN Failure("Chunk too small")
    ELSE LET index == bytes[1] + (256 * bytes[2])
             total == bytes[3] + (256 * bytes[4])
             crc32Stored == <<bytes[7] + (256 * bytes[8]), bytes[5] + (256 * bytes[6])>>
             data == SubSeq(bytes, 9, Len(bytes))
         IN IF CRC32_compute(data) # crc32Stored THEN Failure("CRC32 mismatch")
            ELSE Success(Chunk(index, total, crc32Stored, data))

\* The values that arrive on DataTransfer: the one chunk of a two-byte message,
\* the same with a payload byte changed in transit, and the same claiming to
\* be one of two chunks.
IntactFrame == toBytes(chunkData(<<1, 2>>)[1])
CorruptFrame == [IntactFrame EXCEPT ![Len(IntactFrame)] = 3]
OtherTotalFrame == toBytes([chunkData(<<1, 2>>)[1] EXCEPT !.total = 2])
Frames == {IntactFrame, CorruptFrame, OtherTotalFrame}

\* SyncControl opcodes
START == 1
ACK == 2
ABORT == 3
COMPLETE == 4
Opcodes == {START, ACK, ABORT, COMPLETE}
UnknownOpcodes == {0, 5, 255}

\* SyncState and BLEState
St(tag) == [tag |-> tag, msg |-> ""]
Err(msg) == [tag |-> "error", msg |-> msg]

Codes == {"111111", "222222"}
\* The code the desktop displays.
DisplayedCode == "111111"
\* What the Pairing characteristic returns: a P-256 key or bytes that are none.
PeerKeys == {"pk", "bad"}
Characteristics == {"mode", "pairing", "syncControl", "dataTransfer"}

\* CryptoService.computePairingHMAC and verifyPairingHMAC
computePairingHMAC(code, publicKeyBytes) == <<"hmac", code, publicKeyBytes>>
verifyPairingHMAC(code, publicKeyBytes, hmac) == hmac = computePairingHMAC(code, publicKeyBytes)

InitSyncIdle ==
    /\ sync = [state |-> St("idle"), sessionKey |-> <<>>, reassembler |-> <<>>]
    /\ ble = [state |-> St("idle"), discoveredDevices |-> {}, connectedPeripheral |-> <<>>,
              characteristics |-> {}, receivedChunks |-> <<>>,
              syncProgress |-> [mode |-> "push", peerPublicKey |-> <<>>, chunksReceived |-> 0]]
    /\ radio = [poweredOn |-> TRUE, scanning |-> FALSE, connectRequested |-> FALSE,
                link |-> "none", discovering |-> FALSE, reads |-> {}, notify |-> {}]
    /\ sink = <<>>
    /\ peer = [verdict |-> "none", unknownOpcode |-> FALSE]
    /\ abortReceived = FALSE

\* The world the handlers act on, and its assignment to the next state.
World ==
    [sync |-> sync, ble |-> ble, radio |-> radio, sink |-> sink, peer |-> peer,
     abortReceived |-> abortReceived]

Becomes(w) ==
    /\ sync' = w.sync
    /\ ble' = w.ble
    /\ radio' = w.radio
    /\ sink' = w.sink
    /\ peer' = w.peer
    /\ abortReceived' = w.abortReceived
    /\ UNCHANGED <<vaultVars, iosAuthVars, sessionVars, chunkVars, profileVars, serviceVars>>

\* An assignment to BLECentralManager.state: it is published to the sink of
\* SyncOrchestrator.init, which receives it on the main run loop later.  The
\* states handleBLEStateChange ignores are left out of the queue.
setState(w, s) ==
    [w EXCEPT !.ble.state = s,
              !.sink = IF s.tag \in {"ready", "complete", "error"} THEN Append(@, s) ELSE @]

\* BLECentralManager.startScanning
startScanning(w) ==
    IF ~w.radio.poweredOn THEN setState(w, Err("Bluetooth is not available"))
    ELSE [setState([w EXCEPT !.ble.discoveredDevices = {}], St("scanning"))
            EXCEPT !.radio.scanning = TRUE]

\* BLECentralManager.stopScanning
stopScanning(w) ==
    LET w1 == [w EXCEPT !.radio.scanning = FALSE] IN
    IF w1.ble.state = St("scanning") THEN setState(w1, St("idle")) ELSE w1

\* BLECentralManager.connect: a connection request stays with CoreBluetooth
\* until it succeeds, fails or is cancelled.
connect(w, device) ==
    [setState(stopScanning(w), St("connecting")) EXCEPT !.radio.connectRequested = TRUE]

\* CBCentralManager.cancelPeripheralConnection
cancelPeripheralConnection(r) ==
    [r EXCEPT !.connectRequested = FALSE,
              !.link = IF @ = "connected" THEN "closing" ELSE @,
              !.discovering = FALSE, !.reads = {}, !.notify = {}]

\* BLECentralManager.disconnect
disconnect(w) ==
    LET w1 == IF w.ble.connectedPeripheral # <<>>
              THEN [w EXCEPT !.radio = cancelPeripheralConnection(@)]
              ELSE w
    IN setState([w1 EXCEPT !.ble.connectedPeripheral = <<>>, !.ble.characteristics = {}],
                St("idle"))

\* The guard of the read, write and subscribe calls, and the link they need.
Reaches(w, char) ==
    /\ char \in w.ble.characteristics
    /\ w.ble.connectedPeripheral # <<>>
    /\ w.radio.link = "connected"

\* BLECentralManager.readMode and readPairingData
readValue(w, char) ==
    IF Reaches(w, char) THEN [w EXCEPT !.radio.reads = @ \cup {char}] ELSE w

\* BLECentralManager.subscribeToDataTransfer and subscribeToSyncControl
setNotifyValue(w, char) ==
    IF Reaches(w, char) THEN [w EXCEPT !.radio.notify = @ \cup {char}] ELSE w

\* BLECentralManager.writePairingData, and the peripheral recomputing the HMAC
\* with the code it displays (spec 4.7 step 3).
writePairingData(w, publicKeyBytes, hmac) ==
    IF Reaches(w, "pairing")
    THEN [w EXCEPT !.peer.verdict =
            IF verifyPairingHMAC(DisplayedCode, publicKeyBytes, hmac) THEN "match" ELSE "mismatch"]
    ELSE w

\* BLECentralManager.writeSyncControl: nothing on the central depends on what
\* the peripheral does with the command.
writeSyncControl(w, command) == w

\* SyncOrchestrator.startSync
startSync(w) == startScanning([w EXCEPT !.sync.state = St("scanning")])

\* SyncOrchestrator.connectToDevice
connectToDevice(w, device) == connect(w, device)

\* SyncOrchestrator.submitPairingCode
submitPairingCode(w, code) ==
    IF w.ble.syncProgress.peerPublicKey = <<>>
    THEN [w EXCEPT !.sync.state = Err("No peer public key received")]
    ELSE IF w.ble.syncProgress.peerPublicKey[1] # "pk"
    THEN [w EXCEPT !.sync.state = Err("Pairing failed")]
    ELSE LET publicKeyData == "central-pk"
             hmac == computePairingHMAC(code, publicKeyData)
             w1 == writePairingData(w, publicKeyData, hmac)
         IN [w1 EXCEPT !.sync.sessionKey = <<"session-key">>, !.sync.state = St("paired")]

\* SyncOrchestrator.startDataTransfer
startDataTransfer(w) ==
    IF w.sync.sessionKey = <<>>
    THEN [w EXCEPT !.sync.state = Err("Not paired")]
    ELSE writeSyncControl(
            setNotifyValue(
                setNotifyValue([w EXCEPT !.sync.state = St("transferring")], "dataTransfer"),
                "syncControl"),
            START)

\* SyncOrchestrator.cancel
cancel(w) ==
    [disconnect(w) EXCEPT !.sync.sessionKey = <<>>, !.sync.reassembler = <<>>,
                          !.sync.state = St("idle")]

\* SyncOrchestrator.handleBLEStateChange
handleBLEStateChange(w, bleState) ==
    CASE bleState.tag = "ready" ->
            [readValue(readValue(w, "mode"), "pairing") EXCEPT !.sync.state = St("pairing")]
      [] bleState.tag = "complete" -> [w EXCEPT !.sync.state = St("complete")]
      [] bleState.tag = "error" -> [w EXCEPT !.sync.state = bleState]
      [] OTHER -> w

\* A handler that takes a byte it does not know for an abort.
handleSyncControlStrict(w, control) ==
    CASE control = COMPLETE -> setState(w, St("complete"))
      [] control = ABORT -> setState(w, Err("Sync aborted by desktop"))
      [] control \in {START, ACK} -> w
      [] OTHER -> setState(w, Err("Unknown opcode"))

\* BLECentralManager.handleSyncControl
handleSyncControl(w, control) ==
    CASE control = COMPLETE -> setState(w, St("complete"))
      [] control = ABORT -> setState(w, Err("Sync aborted by desktop"))
      [] OTHER -> w

\* peripheral(_:didUpdateValueFor:error:)
didUpdateValueFor(w, char, value) ==
    CASE char = "mode" ->
            [w EXCEPT !.ble.syncProgress.mode = IF value = 1 THEN "push" ELSE "pull"]
      [] char = "pairing" -> [w EXCEPT !.ble.syncProgress.peerPublicKey = <<value>>]
      [] char = "syncControl" -> handleSyncControl(w, value)
      [] char = "dataTransfer" ->
            [w EXCEPT !.ble.receivedChunks = Append(@, value),
                      !.ble.syncProgress.chunksReceived = Len(w.ble.receivedChunks) + 1]
      [] OTHER -> w

\* The SyncView buttons, each shown in the states of its view.
SyncView_scan ==
    /\ sync.state.tag = "idle"
    /\ Len(sink) < MaxPending
    /\ Becomes(startSync(World))

SyncView_connect(device) ==
    /\ sync.state.tag = "scanning"
    /\ device \in ble.discoveredDevices
    /\ Becomes(connectToDevice(World, device))

SyncView_confirm(code) ==
    /\ sync.state.tag = "pairing"
    /\ Becomes(submitPairingCode(World, code))

SyncView_startSync ==
    /\ sync.state.tag = "paired"
    /\ Becomes(startDataTransfer(World))

\* Cancel in scanningView and pairingView, Try Again in errorView.
SyncView_cancel ==
    /\ sync.state.tag \in {"scanning", "pairing", "error"}
    /\ Becomes(cancel(World))

\* Close in the toolbar and Done in completeView dismiss the sheet: the
\* orchestrator and its BLECentralManager go with it, CoreBluetooth drops
\* what they held, and the next sheet starts with new ones.
SyncView_dismiss ==
    /\ sync.state.tag # "idle"
    /\ Becomes([World EXCEPT
            !.sync = [state |-> St("idle"), sessionKey |-> <<>>, reassembler |-> <<>>],
            !.ble = [state |-> St("idle"), discoveredDevices |-> {},
                     connectedPeripheral |-> <<>>, characteristics |-> {},
                     receivedChunks |-> <<>>,
                     syncProgress |-> [mode |-> "push", peerPublicKey |-> <<>>,
                                       chunksReceived |-> 0]],
            !.radio = [poweredOn |-> radio.poweredOn, scanning |-> FALSE,
                       connectRequested |-> FALSE, link |-> "none", discovering |-> FALSE,
                       reads |-> {}, notify |-> {}],
            !.sink = <<>>,
            !.peer = [verdict |-> "none", unknownOpcode |-> FALSE],
            !.abortReceived = FALSE])

\* The sink of SyncOrchestrator.init receives the next published state.
SyncOrchestrator_sink ==
    /\ sink # <<>>
    /\ Becomes(handleBLEStateChange([World EXCEPT !.sink = Tail(@)], Head(sink)))

\* centralManagerDidUpdateState: Bluetooth goes off or comes back on, here
\* only while no link is up or requested.
centralManagerDidUpdateState ==
    /\ radio.link = "none"
    /\ ~radio.connectRequested
    /\ Len(sink) < MaxPending
    /\ LET w1 == [World EXCEPT !.radio.poweredOn = ~@, !.radio.scanning = FALSE] IN
       Becomes(IF ~w1.radio.poweredOn /\ w1.ble.state = St("scanning")
               THEN setState(w1, Err("Bluetooth turned off"))
               ELSE w1)

\* centralManager(_:didDiscover:advertisementData:rssi:)
didDiscover(device) ==
    /\ radio.scanning
    /\ device \notin ble.discoveredDevices
    /\ Becomes([World EXCEPT !.ble.discoveredDevices = @ \cup {device}])

\* centralManager(_:didConnect:)
didConnect(device) ==
    /\ radio.connectRequested
    /\ radio.poweredOn
    /\ radio.link = "none"
    /\ Becomes([setState([World EXCEPT !.ble.connectedPeripheral = <<device>>],
                         St("connected"))
                    EXCEPT !.radio.connectRequested = FALSE, !.radio.link = "connected",
                           !.radio.discovering = TRUE])

\* centralManager(_:didFailToConnect:error:)
didFailToConnect ==
    /\ radio.connectRequested
    /\ radio.link = "none"
    /\ Len(sink) < MaxPending
    /\ Becomes([setState(World, Err("Connection failed")) EXCEPT
                    !.radio.connectRequested = FALSE])

\* centralManager(_:didDisconnectPeripheral:error:): the link has dropped, or
\* the disconnect asked for by cancelPeripheralConnection has finished.
didDisconnectPeripheral ==
    /\ radio.link \in {"connected", "closing"}
    /\ Len(sink) < MaxPending
    /\ LET w1 == [World EXCEPT !.ble.connectedPeripheral = <<>>, !.ble.characteristics = {},
                               !.radio.link = "none", !.radio.discovering = FALSE,
                               !.radio.reads = {}, !.radio.notify = {},
                               !.peer = [verdict |-> "none", unknownOpcode |-> FALSE],
                               !.abortReceived = FALSE]
       IN Becomes(IF w1.ble.state # St("idle")
                  THEN setState(w1, Err("Disconnected unexpectedly"))
                  ELSE w1)

\* peripheral(_:didDiscoverServices:) and peripheral(_:didDiscoverCharacteristicsFor:error:)
didDiscoverCharacteristics ==
    /\ radio.link = "connected"
    /\ radio.discovering
    /\ Len(sink) < MaxPending
    /\ Becomes([setState([World EXCEPT !.ble.characteristics = Characteristics], St("ready"))
                    EXCEPT !.radio.discovering = FALSE])

\* The answer to a read arrives.
ReadArrives(char, value) ==
    /\ radio.link = "connected"
    /\ char \in radio.reads
    /\ Becomes(didUpdateValueFor([World EXCEPT !.radio.reads = @ \ {char}], char, value))

\* A notification arrives on a characteristic the central subscribed to.
ControlArrives(control) ==
    /\ radio.link = "connected"
    /\ "syncControl" \in radio.notify
    /\ Len(sink) < MaxPending
    /\ Becomes(didUpdateValueFor(
            [World EXCEPT !.abortReceived = @ \/ control = ABORT,
                          !.peer.unknownOpcode = @ \/ control \notin Opcodes],
            "syncControl", control))

ChunkArrives(frame) ==
    /\ radio.link = "connected"
    /\ "dataTransfer" \in radio.notify
    /\ Len(ble.receivedChunks) < MaxFrames
    /\ Becomes(didUpdateValueFor(World, "dataTransfer", frame))

\* The profiles table after the migrations: the default profile, id 1.  The
\* Dashboard has loaded nothing yet.
NoDelete == [id |-> 0, ok |-> TRUE]

InitProfilesIdle ==
    /\ pdb = [profiles |-> {1}, active |-> 1, nextId |-> 2]
    /\ dash = [profiles |-> {}, activeProfile |-> 0, lastDelete |-> NoDelete]

----------------------------------------------------------------------------
\* CryptoService: AES-256-GCM sealing of the entry payloads.

\* The tag is the last 16 bytes of the stored buffer; a nonce is 12 bytes.
tagByteCount == 16
nonceByteCount == 12

SymmetricKeys == {11, 12}
NonceOf(n) == [i \in 1..nonceByteCount |-> (n * i) % 256]
Nonces == {NonceOf(n) : n \in 1..2}
Plaintexts == {DataOf(len, seed) : len \in 0..MaxPlain, seed \in 0..MaxSeed}

\* CryptoKit's AES.GCM, as a cipher with the properties of an AEAD: a
\* keystream of key, nonce and position, and a 16-byte tag over key, nonce
\* and ciphertext that no change of a single byte leaves standing.
Keystream(key, nonce, i) == ((key * 31) + (nonce[1] * 7) + (nonce[nonceByteCount] * 3) + (i * 13)) % 256

AES_GCM_tag(key, nonce, ciphertext) ==
    LET crc == CRC32_compute(<<key>> \o nonce \o ciphertext) IN
    <<crc[1] \div 256, crc[1] % 256, crc[2] \div 256, crc[2] % 256>>
        \o [i \in 1..(tagByteCount - 4) |-> ((key * 17) + i) % 256]

\* AES.GCM.seal
AES_GCM_seal(plaintext, key, nonce) ==
    LET ciphertext == [i \in 1..Len(plaintext) |->
                            XorByte(plaintext[i], Keystream(key, nonce, i))] IN
    [nonce |-> nonce, ciphertext |-> ciphertext,
     tag |-> AES_GCM_tag(key, nonce, ciphertext)]

\* AES.GCM.open: authenticationFailure unless the tag is the one of key,
\* nonce and ciphertext.
AES_GCM_open(sealed, key) ==
    IF sealed.tag = AES_GCM_tag(key, sealed.nonce, sealed.ciphertext)
    THEN Success([i \in 1..Len(sealed.ciphertext) |->
                    XorByte(sealed.ciphertext[i], Keystream(key, sealed.nonce, i))])
    ELSE Failure("authenticationFailure")

\* Data.dropLast(k) and Data.suffix(k)
dropLast(data, k) == SubSeq(data, 1, Max2(Len(data) - k, 0))
suffix(data, k) == SubSeq(data, Max2(Len(data) - k, 0) + 1, Len(data))

\* CryptoService.encrypt; nonce is the value AES.GCM.Nonce() drew.
encrypt(plaintext, key, nonce) ==
    LET sealed == AES_GCM_seal(plaintext, key, nonce) IN
    [ciphertext |-> sealed.ciphertext \o sealed.tag, nonce |-> nonce]

\* A decrypt that takes the last 12 bytes for the tag.
decryptShortTag(ciphertext, nonce, key) ==
    IF Len(nonce) < nonceByteCount THEN Failure("incorrectParameterSize")
    ELSE AES_GCM_open([nonce |-> nonce, ciphertext |-> dropLast(ciphertext, 12),
                       tag |-> suffix(ciphertext, 12)], key)

\* CryptoService.decrypt: AES.GCM.Nonce(data:) and AES.GCM.SealedBox throw on
\* a nonce shorter than 12 bytes and on a tag that is not 16 bytes.
decrypt(ciphertext, nonce, key) ==
    IF Len(nonce) < nonceByteCount THEN Failure("incorrectParameterSize")
    ELSE IF Len(suffix(ciphertext, tagByteCount)) # tagByteCount
         THEN Failure("incorrectParameterSize")
    ELSE AES_GCM_open([nonce |-> nonce, ciphertext |-> dropLast(ciphertext, tagByteCount),
                       tag |-> suffix(ciphertext, tagByteCount)], key)

NoSealed == [ciphertext |-> <<>>, nonce |-> <<>>]
NoFlip == [part |-> "none", byte |-> 0, bit |-> 0]

\* A bit of a Data value changes.
FlipBit(data, byte, bit) == [data EXCEPT ![byte] = XorByte(@, 2 ^ bit)]

\* VaultListView.loadEntries' closure on one row: the DisplayEntry, or nothing
\* when decrypt throws.  JSONDecoder is left out: data is the plaintext.
DisplayEntry(entry, key) ==
    IF entry.nonce = <<>>
    THEN <<[entry |-> entry, data |-> entry.dataBlob]>>
    ELSE LET plaintext == decrypt(entry.dataBlob, entry.nonce, key) IN
         IF ~plaintext.ok THEN <<>>
         ELSE <<[entry |-> entry, data |-> plaintext.value]>>

\* A listing that shows nothing when one row fails to decrypt.
compactMapAllOrNothing(rawEntries, key) ==
    IF \E i \in 1..Len(rawEntries) : DisplayEntry(rawEntries[i], key) = <<>> THEN <<>>
    ELSE [i \in 1..Len(rawEntries) |-> DisplayEntry(rawEntries[i], key)[1]]

\* rawEntries.compactMap { ... } of VaultListView.loadEntries
RECURSIVE compactMap(_, _)
compactMap(rawEntries, key) ==
    IF rawEntries = <<>> THEN <<>>
    ELSE DisplayEntry(Head(rawEntries), key) \o compactMap(Tail(rawEntries), key)

InitGcmIdle ==
    gcm = [key |-> 11, plaintext |-> <<>>, sealed |-> NoSealed, flipped |-> NoFlip,
           opened |-> NoResult]

InitListingIdle ==
    listing = [rows |-> <<>>, key |-> <<>>, entries |-> <<>>, loaded |-> FALSE]

InitBlobsIdle ==
    /\ blobs = [d \in Devices |-> <<>>]
    /\ drawn = [use \in SymmetricKeys \X {NonceOf(n) : n \in 1..MaxNonces} |-> 0]

\* Dashboard's useState: totpCode "------" (no code), timeLeft 30.
NoCode == 0 - 1
InitTotpIdle ==
    totp = [t |-> 0, view |-> "home", timeLeft |-> 30, totpCode |-> NoCode, ticked |-> FALSE]

\* TOTP secrets: strings over a few characters, as sequences.
SecretChars == {"A", "a", "b", "7", "1", " ", "=", "!"}
NoOutcome == [done |-> FALSE, alert |-> "", saved |-> <<>>]
InitB32Idle ==
    b32 = [secret |-> <<>>, outcome |-> NoOutcome]

InitServiceIdle ==
    /\ InitGcmIdle
    /\ InitListingIdle
    /\ InitBlobsIdle
    /\ InitTotpIdle
    /\ InitB32Idle

InitExtIdle == InitChunkIdle /\ InitSyncIdle /\ InitProfilesIdle /\ InitServiceIdle

----------------------------------------------------------------------------
\* Rows and envelopes.

\* VaultEntry: payload stands for the label and the plaintext inside data_blob.
VaultEntry(u, p, prof, upd, del, ver) ==
    [entryUuid |-> u, payload |-> p, profileId |-> prof,
     updatedAt |-> upd, deletedAt |-> del, syncVersion |-> ver]

IsTombstone(r) == r.deletedAt # NULL

\* The envelope of a row (spec 4.7 step 4).
Envelope(r) ==
    [entryUuid |-> r.entryUuid, profileId |-> r.profileId,
     syncVersion |-> r.syncVersion, updatedAt |-> r.updatedAt,
     payload |-> r.payload, isTombstone |-> IsTombstone(r)]

\* The row an envelope is stored as: sync_version and updated_at verbatim; a
\* tombstone's deleted_at is taken from the envelope's updated_at.
RowOf(E) ==
    VaultEntry(E.entryUuid, E.payload, E.profileId, E.updatedAt,
               IF E.isTombstone THEN E.updatedAt ELSE NULL, E.syncVersion)

\* Byte order of entry_uuid strings.
UuidRank(u) == IF u = "u1" THEN 1 ELSE 2

IdsOf(rows, u) == {i \in 1..Len(rows) : rows[i].entryUuid = u}

\* What a store holds per entry_uuid, the local surrogate id and the
\* deleted_at time left out.
Content(r) ==
    [entryUuid |-> r.entryUuid, syncVersion |-> r.syncVersion,
     updatedAt |-> r.updatedAt, isTombstone |-> IsTombstone(r),
     payload |-> r.payload]

StoreView(rows) == {Content(rows[i]) : i \in 1..Len(rows)}

----------------------------------------------------------------------------
\* Merge (spec 4.8).

\* A rule under which an equal sync_version already wins.
WinsBumped(E, local) == E.syncVersion >= local.syncVersion

\* inbound beats local: greater sync_version; equal, later updated_at; still
\* equal, entry_uuid byte order.
Wins(E, local) ==
    \/ E.syncVersion > local.syncVersion
    \/ /\ E.syncVersion = local.syncVersion
       /\ E.updatedAt > local.updatedAt
    \/ /\ E.syncVersion = local.syncVersion
       /\ E.updatedAt = local.updatedAt
       /\ UuidRank(E.entryUuid) > UuidRank(local.entryUuid)

\* A merge that increments the sync_version it stores.
MergeRefreshing(rows, E) ==
    LET ids == IdsOf(rows, E.entryUuid) IN
    IF ids = {} THEN Append(rows, RowOf(E))
    ELSE LET i == CHOOSE j \in ids : TRUE IN
         IF Wins(E, rows[i])
         THEN [rows EXCEPT ![i] = [RowOf(E) EXCEPT !.syncVersion = @ + 1]]
         ELSE rows

\* A merge that inserts every envelope as a new row.
MergeInserting(rows, E) == Append(rows, RowOf(E))

\* upsert_by_uuid
Merge(rows, E) ==
    LET ids == IdsOf(rows, E.entryUuid) IN
    IF ids = {} THEN Append(rows, RowOf(E))
    ELSE LET i == CHOOSE j \in ids : TRUE IN
         IF Wins(E, rows[i]) THEN [rows EXCEPT ![i] = RowOf(E)] ELSE rows

\* Ingestion of the first k envelopes of a bundle, in transmission order.
RECURSIVE MergePrefix(_, _, _)
MergePrefix(rows, bundle, k) ==
    IF k = 0 THEN rows
    ELSE Merge(MergePrefix(rows, bundle, k - 1), bundle[k])

\* get_all_entries_since(0): every row, tombstones included.
Bundle(rows) == [i \in 1..Len(rows) |-> Envelope(rows[i])]

----------------------------------------------------------------------------
\* The merge applied to arbitrary envelopes: one receiver, every envelope a
\* peer can send.

Envelopes ==
    [entryUuid : EnvUuids, profileId : {activeProfileId}, syncVersion : 1..MaxEnvVersion,
     updatedAt : 0..MaxEnvTime, payload : Payloads, isTombstone : BOOLEAN]

NoMerge == [uuid |-> "none", met |-> 0, env |-> <<>>]

\* The sync_version the receiver holds for an entry_uuid, 0 when it has no row.
VersionMet(rows, u) ==
    LET ids == IdsOf(rows, u) IN
    IF ids = {} THEN 0 ELSE rows[CHOOSE j \in ids : TRUE].syncVersion

InitStoreIdle ==
    /\ store = [d \in Devices |-> <<>>]
    /\ now = 0
    /\ entries = {}
    /\ selectedEntry = <<>>
    /\ lastSync = [from |-> "none", to |-> "none", full |-> FALSE, overwritten |-> {}]

InitVaultIdle ==
    /\ InitStoreIdle
    /\ encryptionKey = deriveEncryptionKey("pw1")
    /\ InitAuthIdle
    /\ InitCore
    /\ InitApp

InitMerge ==
    /\ InitVaultIdle
    /\ InitExtIdle
    /\ mstore = <<>>
    /\ lastMerge = NoMerge

\* Ingestion of one envelope (spec 4.7 step 6, 4.8).
Ingest(E) ==
    /\ mstore' = Merge(mstore, E)
    /\ lastMerge' = [uuid |-> E.entryUuid, met |-> VersionMet(mstore, E.entryUuid),
                     env |-> <<E>>]
    /\ UNCHANGED <<store, now, entries, selectedEntry, lastSync, encryptionKey, iosAuthVars, sessionVars, extVars>>

NextMerge == \E E \in Envelopes : Ingest(E)

SpecMerge == InitMerge /\ [][NextMerge]_vars

----------------------------------------------------------------------------
\* The vault on two devices.  The iOS device runs the Swift views and
\* DatabaseService; the desktop's store operations are those of spec 4.2.

NoSync == [from |-> "none", to |-> "none", full |-> FALSE, overwritten |-> {}]

\* UUID().uuidString: an entry_uuid no row of either device holds.
FreshUuids ==
    {u \in EnvUuids : \A d \in Devices : IdsOf(store[d], u) = {}}

\* A listing that leaves the tombstones in.
getActiveEntriesWithDeleted(rows, profileId) ==
    {i \in 1..Len(rows) : rows[i].profileId = profileId}

\* DatabaseService.getActiveEntries
getActiveEntries(rows, profileId) ==
    {i \in 1..Len(rows) : rows[i].profileId = profileId /\ rows[i].deletedAt = NULL}

\* VaultListView.loadEntries: the DisplayEntry copies of the active rows; left
\* as it was when no key is held.
loadEntries(rows) ==
    IF encryptionKey = <<>> THEN entries
    ELSE {[id |-> i, entry |-> rows[i]] : i \in getActiveEntries(rows, activeProfileId)}

\* DatabaseService.saveEntry: INSERT, the id is the next rowid.
saveEntry(rows, entry) == Append(rows, entry)

\* DatabaseService.updateEntry: GRDB's update writes every column of the
\* record to the row with its primary key.
updateEntry(rows, id, entry) == [rows EXCEPT ![id] = entry]

\* DatabaseService.softDeleteEntry
softDeleteEntry(rows, id, profileId, at) ==
    IF rows[id].profileId = profileId /\ rows[id].deletedAt = NULL
    THEN [rows EXCEPT ![id] = [@ EXCEPT !.deletedAt = at, !.updatedAt = at,
                                        !.syncVersion = @ + 1]]
    ELSE rows

\* VaultListView.onAppear
VaultListView_onAppear ==
    /\ selectedEntry = <<>>
    /\ entries' = loadEntries(store["ios"])
    /\ UNCHANGED <<store, now, selectedEntry, lastSync, mstore, lastMerge, encryptionKey, iosAuthVars, sessionVars, extVars>>

\* Tapping a row of the list: selectedEntry = entry presents EntryDetailView.
VaultListView_select(e) ==
    /\ selectedEntry = <<>>
    /\ e \in entries
    /\ selectedEntry' = <<e>>
    /\ UNCHANGED <<store, now, entries, lastSync, mstore, lastMerge, encryptionKey, iosAuthVars, sessionVars, extVars>>

\* AddEntryView.saveEntry, then onSave (loadEntries) and dismiss.
AddEntryView_saveEntry(p, u) ==
    /\ selectedEntry = <<>>
    /\ encryptionKey # <<>>
    /\ u \in FreshUuids
    /\ LET rows == saveEntry(store["ios"], VaultEntry(u, p, activeProfileId, now, NULL, 1)) IN
       /\ store' = [store EXCEPT !["ios"] = rows]
       /\ entries' = loadEntries(rows)
    /\ lastSync' = NoSync
    /\ UNCHANGED <<now, selectedEntry, mstore, lastMerge, encryptionKey, iosAuthVars, sessionVars, extVars>>

\* EntryDetailView.updateEntry, then dismiss and onDismiss (loadEntries,
\* selectedEntry = nil).
EntryDetailView_updateEntry(p) ==
    /\ selectedEntry # <<>>
    /\ encryptionKey # <<>>
    /\ LET shown == selectedEntry[1]
           updated == [shown.entry EXCEPT !.payload = p, !.updatedAt = now,
                                          !.syncVersion = @ + 1]
           rows == updateEntry(store["ios"], shown.id, updated) IN
       /\ updated.syncVersion <= MaxVersion
       /\ store' = [store EXCEPT !["ios"] = rows]
       /\ entries' = loadEntries(rows)
    /\ selectedEntry' = <<>>
    /\ lastSync' = NoSync
    /\ UNCHANGED <<now, mstore, lastMerge, encryptionKey, iosAuthVars, sessionVars, extVars>>

\* EntryDetailView.deleteEntry, then dismiss and onDismiss.
EntryDetailView_deleteEntry ==
    /\ selectedEntry # <<>>
    /\ LET shown == selectedEntry[1]
           rows == softDeleteEntry(store["ios"], shown.id, shown.entry.profileId, now) IN
       /\ store["ios"][shown.id].syncVersion < MaxVersion
       /\ store' = [store EXCEPT !["ios"] = rows]
       /\ entries' = loadEntries(rows)
    /\ selectedEntry' = <<>>
    /\ lastSync' = NoSync
    /\ UNCHANGED <<now, mstore, lastMerge, encryptionKey, iosAuthVars, sessionVars, extVars>>

\* EntryDetailView's Cancel: dismiss and onDismiss.
EntryDetailView_cancel ==
    /\ selectedEntry # <<>>
    /\ entries' = loadEntries(store["ios"])
    /\ selectedEntry' = <<>>
    /\ UNCHANGED <<store, now, lastSync, mstore, lastMerge, encryptionKey, iosAuthVars, sessionVars, extVars>>

\* Desktop save_entry (spec 4.2): a new row with sync_version 1.
save_entry(p, u, profile_id) ==
    /\ u \in FreshUuids
    /\ store' = [store EXCEPT !["desktop"] =
                    Append(@, VaultEntry(u, p, profile_id, now, NULL, 1))]
    /\ lastSync' = NoSync
    /\ UNCHANGED <<now, entries, selectedEntry, mstore, lastMerge, encryptionKey, iosAuthVars, sessionVars, extVars>>

\* Desktop update_entry (spec 4.2): increments sync_version, refreshes updated_at.
update_entry(id, p) ==
    /\ id \in 1..Len(store["desktop"])
    /\ store["desktop"][id].syncVersion < MaxVersion
    /\ store' = [store EXCEPT !["desktop"][id] =
                    [@ EXCEPT !.payload = p, !.updatedAt = now, !.syncVersion = @ + 1]]
    /\ lastSync' = NoSync
    /\ UNCHANGED <<now, entries, selectedEntry, mstore, lastMerge, encryptionKey, iosAuthVars, sessionVars, extVars>>

\* Desktop soft_delete (spec 4.2): deleted_at = now, increments sync_version.
soft_delete(id) ==
    /\ id \in 1..Len(store["desktop"])
    /\ store["desktop"][id].syncVersion < MaxVersion
    /\ store' = [store EXCEPT !["desktop"][id] =
                    [@ EXCEPT !.deletedAt = now, !.syncVersion = @ + 1]]
    /\ lastSync' = NoSync
    /\ UNCHANGED <<now, entries, selectedEntry, mstore, lastMerge, encryptionKey, iosAuthVars, sessionVars, extVars>>

\* The rows a sync overwrote: entry_uuid and the sync_version it replaced.
Overwritten(before, after) ==
    {[uuid |-> before[i].entryUuid, version |-> before[i].syncVersion] :
        i \in {j \in 1..Len(before) : Content(after[j]) # Content(before[j])}}

\* A sync from one device to the other (spec 4.7 steps 4 to 7): the sender's
\* bundle, of which the receiver ingests the first k envelopes; all of them
\* in a full sync.  Bundling and ingestion are those of the spec on both
\* devices (SyncOrchestrator and BLECentralManager only carry the chunks).
\* On iOS the sync runs in SyncView, a sheet of the list, so no detail view
\* is open; nothing reloads VaultListView.entries afterwards.
Sync(from, to, k) ==
    /\ from # to
    /\ selectedEntry = <<>>
    /\ k \in 0..Len(store[from])
    /\ LET bundle == Bundle(store[from])
           rows == MergePrefix(store[to], bundle, k) IN
       /\ store' = [store EXCEPT ![to] = rows]
       /\ lastSync' = [from |-> from, to |-> to, full |-> (k = Len(bundle)),
                       overwritten |-> Overwritten(store[to], rows)]
    /\ UNCHANGED <<now, entries, selectedEntry, mstore, lastMerge, encryptionKey, iosAuthVars, sessionVars, extVars>>

Tick ==
    /\ now < MaxTime
    /\ now' = now + 1
    /\ UNCHANGED <<store, entries, selectedEntry, lastSync, mstore, lastMerge, encryptionKey, iosAuthVars, sessionVars, extVars>>

InitVault ==
    /\ InitVaultIdle
    /\ InitExtIdle
    /\ mstore = <<>>
    /\ lastMerge = NoMerge

NextVault ==
    \/ VaultListView_onAppear
    \/ \E e \in entries : VaultListView_select(e)
    \/ \E p \in Payloads, u \in UUIDs : AddEntryView_saveEntry(p, u)
    \/ \E p \in Payloads : EntryDetailView_updateEntry(p)
    \/ EntryDetailView_deleteEntry
    \/ EntryDetailView_cancel
    \/ \E p \in Payloads, u \in UUIDs, profile_id \in ProfileIds : save_entry(p, u, profile_id)
    \/ \E id \in 1..Cardinality(UUIDs), p \in Payloads : update_entry(id, p)
    \/ \E id \in 1..Cardinality(UUIDs) : soft_delete(id)
    \/ \E from \in Devices, to \in Devices, k \in 0..Cardinality(UUIDs) : Sync(from, to, k)
    \/ Tick

SpecVault == InitVault /\ [][NextVault]_vars

----------------------------------------------------------------------------
\* The desktop core's auth and session operations (spec 4.3, section 6).  Each
\* takes the core's state c and the clock t and yields the new state and the
\* result handed to the caller.

\* The session a token names is live: present and not idle for more than
\* IDLE_TIMEOUT.
Live(c, token, t) ==
    \E s \in c.sessions : s.token = token /\ t - s.last_activity <= IDLE_TIMEOUT

Min(a, b) == IF a < b THEN a ELSE b

\* The cooldown after the n-th consecutive failure, n >= MaxFailedUnlocks.
Cooldown(n) == Min(CooldownBase * 2 ^ (n - MaxFailedUnlocks), CooldownCap)

check_registration_status(c) == c.user # <<>>

register_user(c, username, password) ==
    IF c.user # <<>> THEN [core |-> c, result |-> "AlreadyRegistered", token |-> NoToken]
    ELSE [core |-> [c EXCEPT !.user = <<[username |-> username, password |-> password]>>],
          result |-> "Ok", token |-> NoToken]

unlock_vault(c, username, password, t) ==
    LET a == c.attempts[username] IN
    IF a.failures >= MaxFailedUnlocks /\ t < a.until
    THEN [core |-> c, result |-> "TooManyAttempts", token |-> NoToken]
    ELSE IF c.user = <<[username |-> username, password |-> password]>>
    THEN [core |-> [c EXCEPT !.sessions = @ \cup {[token |-> c.nextToken, last_activity |-> t]},
                             !.attempts[username] = NoAttempts,
                             !.nextToken = @ + 1],
          result |-> "Ok", token |-> c.nextToken]
    ELSE [core |-> [c EXCEPT !.attempts[username] =
                        [failures |-> a.failures + 1,
                         until |-> IF a.failures + 1 >= MaxFailedUnlocks
                                   THEN t + Cooldown(a.failures + 1) ELSE 0]],
          result |-> "InvalidCredentials", token |-> NoToken]

lock_vault(c, token, t) ==
    IF Live(c, token, t)
    THEN [core |-> [c EXCEPT !.sessions = {s \in @ : s.token # token}], result |-> "Ok"]
    ELSE [core |-> c, result |-> "SessionExpired"]

\* A touch_activity that, given no token, touches every session.
touch_activityAnySession(c, token, t) ==
    IF Live(c, token, t) \/ token = NoToken
    THEN [core |-> [c EXCEPT !.sessions =
                        {IF s.token = token \/ token = NoToken
                         THEN [s EXCEPT !.last_activity = t] ELSE s : s \in @}],
          result |-> "Ok"]
    ELSE [core |-> c, result |-> "SessionExpired"]

touch_activity(c, token, t) ==
    IF Live(c, token, t)
    THEN [core |-> [c EXCEPT !.sessions =
                        {IF s.token = token THEN [s EXCEPT !.last_activity = t] ELSE s : s \in @}],
          result |-> "Ok"]
    ELSE [core |-> c, result |-> "SessionExpired"]

\* A get_all_vault_entries that counts as activity of its session.
get_all_vault_entriesTouching(c, token, t) ==
    IF Live(c, token, t)
    THEN [core |-> [c EXCEPT !.sessions =
                        {IF s.token = token THEN [s EXCEPT !.last_activity = t] ELSE s : s \in @}],
          result |-> "Ok"]
    ELSE [core |-> c, result |-> "SessionExpired"]

get_all_vault_entries(c, token, t) ==
    IF Live(c, token, t) THEN [core |-> c, result |-> "Ok"]
    ELSE [core |-> c, result |-> "SessionExpired"]

\* The background sweeper: drops the sessions idle for more than IDLE_TIMEOUT.
sweeper(c, t) == [c EXCEPT !.sessions = {s \in @ : t - s.last_activity <= IDLE_TIMEOUT}]

Call(op, token, r) == [op |-> op, token |-> token, result |-> r.result]

\* A failed unlock may still be counted.
CanCount(c, username) == c.attempts[username].failures < MaxFailures

\* The clock advances by half the idle window, or by that and one throttle period.
TickSteps == {IDLE_TIMEOUT \div 2, IDLE_TIMEOUT \div 2 + ThrottleSecs}

Sweep ==
    /\ core' = sweeper(core, clock)
    /\ core' # core
    /\ calls' = <<>>
    /\ UNCHANGED <<vaultVars, extVars, iosAuthVars, clock, app, lastTouch>>

TickClock(d) ==
    /\ clock + d <= MaxClock
    /\ clock' = clock + d
    /\ calls' = <<>>
    /\ UNCHANGED <<vaultVars, extVars, iosAuthVars, core, app, lastTouch>>

----------------------------------------------------------------------------
\* The core called directly, with any token a caller can present.

AnyToken == 0..(MaxTokens + 1)

Core_register_user(username, password) ==
    LET r == register_user(core, username, password) IN
    /\ core' = r.core
    /\ calls' = <<Call("register_user", NoToken, r)>>
    /\ UNCHANGED <<vaultVars, extVars, iosAuthVars, clock, app, lastTouch>>

Core_unlock_vault(username, password) ==
    LET r == unlock_vault(core, username, password, clock) IN
    /\ core.nextToken <= MaxTokens
    /\ CanCount(core, username)
    /\ core' = r.core
    /\ calls' = <<Call("unlock_vault", NoToken, r)>>
    /\ UNCHANGED <<vaultVars, extVars, iosAuthVars, clock, app, lastTouch>>

Core_lock_vault(token) ==
    LET r == lock_vault(core, token, clock) IN
    /\ core' = r.core
    /\ calls' = <<Call("lock_vault", token, r)>>
    /\ UNCHANGED <<vaultVars, extVars, iosAuthVars, clock, app, lastTouch>>

Core_touch_activity(token) ==
    LET r == touch_activity(core, token, clock) IN
    /\ core' = r.core
    /\ calls' = <<Call("touch_activity", token, r)>>
    /\ UNCHANGED <<vaultVars, extVars, iosAuthVars, clock, app, lastTouch>>

Core_get_all_vault_entries(token) ==
    LET r == get_all_vault_entries(core, token, clock) IN
    /\ core' = r.core
    /\ calls' = <<Call("get_all_vault_entries", token, r)>>
    /\ UNCHANGED <<vaultVars, extVars, iosAuthVars, clock, app, lastTouch>>

NextCore ==
    \/ \E u \in Usernames, p \in Passwords : Core_register_user(u, p)
    \/ \E u \in Usernames, p \in Passwords : Core_unlock_vault(u, p)
    \/ \E token \in AnyToken : Core_lock_vault(token)
    \/ \E token \in AnyToken : Core_touch_activity(token)
    \/ \E token \in AnyToken : Core_get_all_vault_entries(token)
    \/ Sweep
    \/ \E d \in TickSteps : TickClock(d)

SpecCore == InitVault /\ [][NextCore]_vars

----------------------------------------------------------------------------
\* The desktop app: App.tsx against the core.

\* App.checkRegistration, run once on mount.
checkRegistration ==
    /\ app' = [app EXCEPT !.isRegistered = check_registration_status(core)]
    /\ calls' = <<>>
    /\ UNCHANGED <<vaultVars, extVars, iosAuthVars, clock, core, lastTouch>>

\* App.handleRegister: the form submits to it while isRegistered is false.
handleRegister(username, password) ==
    LET r == register_user(core, username, password) IN
    /\ ~app.isAuthenticated
    /\ ~app.isRegistered
    /\ core' = r.core
    /\ app' = IF r.result = "Ok" THEN [app EXCEPT !.isRegistered = TRUE] ELSE app
    /\ calls' = <<Call("register_user", NoToken, r)>>
    /\ UNCHANGED <<vaultVars, extVars, iosAuthVars, clock, lastTouch>>

\* App.handleLogin: the form submits to it while isRegistered is true.
handleLogin(username, password) ==
    LET r == unlock_vault(core, username, password, clock) IN
    /\ ~app.isAuthenticated
    /\ app.isRegistered
    /\ core.nextToken <= MaxTokens
    /\ CanCount(core, username)
    /\ core' = r.core
    /\ app' = IF r.result = "Ok"
              THEN [app EXCEPT !.sessionToken = r.token, !.isAuthenticated = TRUE]
              ELSE app
    /\ calls' = <<Call("unlock_vault", NoToken, r)>>
    /\ lastTouch' = NULL
    /\ UNCHANGED <<vaultVars, extVars, iosAuthVars, clock>>

\* App.touchActivity, on a user interaction while authenticated: past the
\* throttle it invokes touch_activity, with no token argument.
\* activityThrottle starts at 0, decades before any Date.now(): NULL.
touchActivity ==
    LET r == touch_activity(core, NoToken, clock) IN
    /\ app.isAuthenticated
    /\ ~(app.activityThrottle # NULL /\ clock - app.activityThrottle < ThrottleSecs)
    /\ app' = [app EXCEPT !.activityThrottle = clock]
    /\ core' = r.core
    /\ calls' = <<Call("touch_activity", NoToken, r)>>
    /\ lastTouch' = IF Live(core, app.sessionToken, clock) THEN clock ELSE lastTouch
    /\ UNCHANGED <<vaultVars, extVars, iosAuthVars, clock>>

\* App.handleLogout: lock_vault is invoked with no token argument and its
\* failure ignored; the frontend state is cleared regardless.
handleLogout ==
    LET r == lock_vault(core, NoToken, clock) IN
    /\ app.isAuthenticated
    /\ core' = r.core
    /\ app' = [app EXCEPT !.sessionToken = NoToken, !.isAuthenticated = FALSE]
    /\ calls' = <<Call("lock_vault", NoToken, r)>>
    /\ UNCHANGED <<vaultVars, extVars, iosAuthVars, clock, lastTouch>>

\* The session poll of App's effect: get_all_vault_entries with the session
\* token; on an error, handleLogout.
sessionPoll ==
    LET r == get_all_vault_entries(core, app.sessionToken, clock)
        l == lock_vault(r.core, NoToken, clock) IN
    /\ app.isAuthenticated
    /\ IF r.result = "Ok"
       THEN /\ core' = r.core
            /\ app' = app
            /\ calls' = <<Call("get_all_vault_entries", app.sessionToken, r)>>
       ELSE /\ core' = l.core
            /\ app' = [app EXCEPT !.sessionToken = NoToken, !.isAuthenticated = FALSE]
            /\ calls' = <<Call("get_all_vault_entries", app.sessionToken, r),
                          Call("lock_vault", NoToken, l)>>
    /\ UNCHANGED <<vaultVars, extVars, iosAuthVars, clock, lastTouch>>

NextDesktop ==
    \/ checkRegistration
    \/ \E u \in Usernames, p \in Passwords : handleRegister(u, p)
    \/ \E u \in Usernames, p \in Passwords : handleLogin(u, p)
    \/ touchActivity
    \/ handleLogout
    \/ sessionPoll
    \/ Sweep
    \/ \E d \in TickSteps : TickClock(d)

SpecDesktop == InitVault /\ [][NextDesktop]_vars

\* The same with the interval of the session poll firing for as long as the
\* effect is mounted.
SpecDesktopLive == InitVault /\ [][NextDesktop]_vars /\ WF_vars(sessionPoll)

----------------------------------------------------------------------------
\* The iOS app's registration and login: AuthService, DatabaseService's user
\* operations, and the views that call them.

\* DatabaseService.isRegistered
isRegistered(rows) == Cardinality(rows) > 0

\* DatabaseService.getUser
getUser(rows, username) == {r \in rows : r.username = username}

\* DatabaseService.createUser: INSERT; username is the primary key, a second
\* row with it throws and inserts nothing.
createUser(rows, user) ==
    IF getUser(rows, user.username) # {} THEN rows ELSE rows \cup {user}

\* AuthService.checkRegistration: a read that throws counts as not registered.
AuthService_checkRegistration(readOk) ==
    IF readOk THEN isRegistered(users) ELSE FALSE

\* The app starts: AuthService() is constructed and ContentView.onAppear
\* runs checkRegistration.  The database and the Keychain persist.
VibeVaultApp_launch(readOk) ==
    /\ authService' = [isRegistered |-> AuthService_checkRegistration(readOk),
                       isAuthenticated |-> FALSE, error |-> "",
                       loggedOut |-> authService.loggedOut]
    /\ encryptionKey' = <<>>
    /\ UNCHANGED <<store, now, entries, selectedEntry, lastSync, mstore, lastMerge,
                   users, keychain, failures, sessionVars, extVars>>

\* RegisterView.register, shown while neither authenticated nor registered,
\* calling AuthService.register.
RegisterView_register(username, password) ==
    LET rows == createUser(users, [username |-> username, password |-> password]) IN
    /\ ~authService.isAuthenticated
    /\ ~authService.isRegistered
    /\ users' = rows
    /\ authService' = IF getUser(users, username) # {} THEN authService
                      ELSE [authService EXCEPT !.isRegistered = TRUE]
    /\ UNCHANGED <<store, now, entries, selectedEntry, lastSync, mstore, lastMerge,
                   encryptionKey, keychain, failures, sessionVars, extVars>>

\* What AuthService holds: the key in memory, the Keychain item and the
\* published isAuthenticated.
Held == [encryptionKey |-> encryptionKey, keychain |-> keychain,
         isAuthenticated |-> authService.isAuthenticated]

\* KeychainService.store: the item is deleted, then added; an add that fails
\* throws and leaves no item.
KeychainService_store(data, stored) == IF stored THEN data ELSE <<>>

\* A login that publishes isAuthenticated before the encryption salt is parsed.
loginAuthenticatingFirst(held, rows, username, password, saltOk, stored) ==
    LET user == getUser(rows, username) IN
    IF user = {} THEN [held |-> held, error |-> "invalidCredentials"]
    ELSE IF \A r \in user : r.password # password
    THEN [held |-> held, error |-> "invalidCredentials"]
    ELSE IF ~saltOk
    THEN [held |-> [held EXCEPT !.isAuthenticated = TRUE], error |-> "invalidEncryptionSalt"]
    ELSE [held |-> [encryptionKey |-> deriveEncryptionKey(password),
                    keychain |-> KeychainService_store(deriveEncryptionKey(password), stored),
                    isAuthenticated |-> TRUE],
          error |-> ""]

\* AuthService.login: what is held afterwards and the error thrown ("" if
\* none).  saltOk: the row's encryption_salt parses as hex; stored: the
\* Keychain takes the key (its failure is dropped by try?).
login(held, rows, username, password, saltOk, stored) ==
    LET user == getUser(rows, username) IN
    IF user = {} THEN [held |-> held, error |-> "invalidCredentials"]
    ELSE IF \A r \in user : r.password # password
    THEN [held |-> held, error |-> "invalidCredentials"]
    ELSE IF ~saltOk THEN [held |-> held, error |-> "invalidEncryptionSalt"]
    ELSE [held |-> [encryptionKey |-> deriveEncryptionKey(password),
                    keychain |-> KeychainService_store(deriveEncryptionKey(password), stored),
                    isAuthenticated |-> TRUE],
          error |-> ""]

\* An unlock that takes the biometric check for the key.
unlockWithBiometricsWithoutKey(held, authenticated, readOk) ==
    IF ~authenticated THEN [held |-> held, error |-> "biometricsFailed"]
    ELSE IF ~readOk THEN [held |-> held, error |-> "retrieveFailure"]
    ELSE [held |-> [held EXCEPT !.encryptionKey = held.keychain, !.isAuthenticated = TRUE],
          error |-> ""]

\* AuthService.unlockWithBiometrics.  authenticated: the biometric check
\* passed; readOk: SecItemCopyMatching answered success or item-not-found.
unlockWithBiometrics(held, authenticated, readOk) ==
    IF ~authenticated THEN [held |-> held, error |-> "biometricsFailed"]
    ELSE IF ~readOk THEN [held |-> held, error |-> "retrieveFailure"]
    ELSE IF held.keychain = <<>> THEN [held |-> held, error |-> "noStoredKey"]
    ELSE [held |-> [held EXCEPT !.encryptionKey = held.keychain, !.isAuthenticated = TRUE],
          error |-> ""]

\* What an AuthService call leaves behind.
Holds(r, loggedOut) ==
    /\ encryptionKey' = r.held.encryptionKey
    /\ keychain' = r.held.keychain
    /\ authService' = [authService EXCEPT !.isAuthenticated = r.held.isAuthenticated,
                                          !.error = r.error, !.loggedOut = loggedOut]

\* LoginView.login, shown while registered and not authenticated, calling
\* AuthService.login.
LoginView_login(username, password, saltOk, stored) ==
    LET r == login(Held, users, username, password, saltOk, stored) IN
    /\ ~authService.isAuthenticated
    /\ authService.isRegistered
    /\ Holds(r, authService.loggedOut /\ r.error # "")
    /\ IF r.error # ""
       THEN /\ failures[username] < MaxFailures
            /\ failures' = [failures EXCEPT ![username] = @ + 1]
       ELSE failures' = [failures EXCEPT ![username] = 0]
    /\ UNCHANGED <<store, now, entries, selectedEntry, lastSync, mstore, lastMerge,
                   users, sessionVars, extVars>>

\* AuthService.unlockWithBiometrics, called while not authenticated.
AuthService_unlockWithBiometrics(authenticated, readOk) ==
    /\ ~authService.isAuthenticated
    /\ authService.isRegistered
    /\ Holds(unlockWithBiometrics(Held, authenticated, readOk), authService.loggedOut)
    /\ UNCHANGED <<store, now, entries, selectedEntry, lastSync, mstore, lastMerge,
                   users, failures, sessionVars, extVars>>

\* LoginView.unlockBiometric: the button is shown when onAppear found the
\* Keychain item.
LoginView_unlockBiometric(authenticated) ==
    /\ keychain # <<>>
    /\ AuthService_unlockWithBiometrics(authenticated, TRUE)

\* AuthService.logout, from VaultListView's menu.
AuthService_logout ==
    /\ authService.isAuthenticated
    /\ encryptionKey' = <<>>
    /\ keychain' = <<>>
    /\ authService' = [authService EXCEPT !.isAuthenticated = FALSE, !.error = "",
                                          !.loggedOut = TRUE]
    /\ UNCHANGED <<store, now, entries, selectedEntry, lastSync, mstore, lastMerge,
                   users, failures, sessionVars, extVars>>

InitIos ==
    /\ InitStoreIdle
    /\ InitExtIdle
    /\ mstore = <<>>
    /\ lastMerge = NoMerge
    /\ InitCore
    /\ InitApp
    /\ encryptionKey = <<>>
    /\ users = {}
    /\ authService = [isRegistered |-> FALSE, isAuthenticated |-> FALSE, error |-> "",
                      loggedOut |-> FALSE]
    /\ keychain = <<>>
    /\ failures = [u \in Usernames |-> 0]

NextIos ==
    \/ \E readOk \in BOOLEAN : VibeVaultApp_launch(readOk)
    \/ \E u \in Usernames, p \in Passwords : RegisterView_register(u, p)
    \/ \E u \in Usernames, p \in Passwords, stored \in BOOLEAN :
            LoginView_login(u, p, TRUE, stored)
    \/ \E authenticated \in BOOLEAN : LoginView_unlockBiometric(authenticated)
    \/ AuthService_logout

SpecIos == InitIos /\ [][NextIos]_vars

\* AuthService called directly: a user row whose encryption_salt is not hex,
\* and an unlock with no Keychain item or a Keychain that does not answer.
NextAuth ==
    \/ \E readOk \in BOOLEAN : VibeVaultApp_launch(readOk)
    \/ \E u \in Usernames, p \in Passwords : RegisterView_register(u, p)
    \/ \E u \in Usernames, p \in Passwords, saltOk \in BOOLEAN, stored \in BOOLEAN :
            LoginView_login(u, p, saltOk, stored)
    \/ \E authenticated \in BOOLEAN, readOk \in BOOLEAN :
            AuthService_unlockWithBiometrics(authenticated, readOk)
    \/ AuthService_logout

SpecAuth == InitIos /\ [][NextAuth]_vars

----------------------------------------------------------------------------
\* Chunking and reassembly of one message.

BLEProtocol_chunkData ==
    /\ wire = <<>>
    /\ wire' = chunkData(message)
    /\ reassembler' = ChunkReassembler(Len(wire'))
    /\ UNCHANGED <<message, addResult, reassembled>>
    /\ UNCHANGED <<vaultVars, iosAuthVars, sessionVars, syncVars, profileVars, serviceVars>>

\* The data of chunk k of the message arrives in a chunk that says index and
\* total.
ChunkReassembler_addChunkAt(k, index, total) ==
    /\ wire # <<>>
    /\ k \in 1..Len(wire)
    /\ LET r == addChunk(reassembler, [wire[k] EXCEPT !.index = index, !.total = total]) IN
        /\ reassembler' = r.self
        /\ addResult' = [index |-> index, total |-> total, result |-> r.result]
    /\ UNCHANGED <<message, wire, reassembled>>
    /\ UNCHANGED <<vaultVars, iosAuthVars, sessionVars, syncVars, profileVars, serviceVars>>

\* Chunk k of the message arrives, in any order and any number of times; with
\* total other than the reassembler's it is a chunk of another message.
ChunkReassembler_addChunk(k, total) == ChunkReassembler_addChunkAt(k, k - 1, total)

ChunkReassembler_reassemble ==
    /\ wire # <<>>
    /\ reassembled' = reassemble(reassembler)
    /\ UNCHANGED <<message, wire, reassembler, addResult>>
    /\ UNCHANGED <<vaultVars, iosAuthVars, sessionVars, syncVars, profileVars, serviceVars>>

InitChunk ==
    /\ InitVaultIdle
    /\ mstore = <<>>
    /\ lastMerge = NoMerge
    /\ message \in {DataOf(len, seed) : len \in Lens, seed \in 0..MaxSeed}
    /\ wire = <<>>
    /\ reassembler = NoReassembler
    /\ addResult = NoResult
    /\ reassembled = NoResult
    /\ InitSyncIdle
    /\ InitProfilesIdle
    /\ InitServiceIdle

NextChunk ==
    \/ BLEProtocol_chunkData
    \/ \E k \in 1..MaxChunks, d \in {0, 1} : ChunkReassembler_addChunk(k, Len(wire) + d)
    \/ ChunkReassembler_reassemble

SpecChunk == InitChunk /\ [][NextChunk]_vars

\* The reassembler fed chunks of any index and total, those of other messages
\* and those out of range among them; a chunk out of range carries the data
\* of the last chunk.
NextReassembler ==
    \/ BLEProtocol_chunkData
    \/ \E index \in 0..MaxChunks, d \in {0 - 1, 0, 1} :
            ChunkReassembler_addChunkAt(Min2(index + 1, Len(wire)), index, Len(wire) + d)
    \/ ChunkReassembler_reassemble

SpecReassembler == InitChunk /\ [][NextReassembler]_vars

----------------------------------------------------------------------------
\* One sync sheet on iOS against the desktop peripheral.

NextSyncView ==
    \/ SyncView_scan
    \/ \E device \in {"desktop"} : SyncView_connect(device)
    \/ \E code \in Codes : SyncView_confirm(code)
    \/ SyncView_startSync
    \/ SyncView_cancel
    \/ SyncView_dismiss

NextBLE ==
    \/ SyncOrchestrator_sink
    \/ centralManagerDidUpdateState
    \/ \E device \in {"desktop"} : didDiscover(device)
    \/ \E device \in {"desktop"} : didConnect(device)
    \/ didFailToConnect
    \/ didDisconnectPeripheral
    \/ didDiscoverCharacteristics
    \/ \E value \in {1, 2} : ReadArrives("mode", value)
    \/ \E value \in PeerKeys : ReadArrives("pairing", value)
    \/ \E control \in {ACK, ABORT, COMPLETE} : ControlArrives(control)
    \/ \E frame \in Frames : ChunkArrives(frame)

NextSync == NextSyncView \/ NextBLE

SpecSync == InitVault /\ [][NextSync]_vars

\* The same with the scheduling the code has: what the BLE manager publishes
\* is received on the main run loop (receive(on: RunLoop.main)).  Neither
\* the user nor the peer nor CoreBluetooth owes the sheet a next event, and
\* the sources start no timer.
SpecSyncLive == InitVault /\ [][NextSync]_vars /\ WF_vars(SyncOrchestrator_sink)

\* The same sheet against a peripheral that also sends SyncControl bytes that
\* are no opcode.
NextControl ==
    \/ NextSync
    \/ \E control \in UnknownOpcodes \cup {START} : ControlArrives(control)

SpecControl == InitVault /\ [][NextControl]_vars

\* SyncOrchestrator.startSync is public API and has no guard of its own: here
\* it is called in whatever state the orchestrator is in.
SyncOrchestrator_startSync ==
    /\ Len(sink) < MaxPending
    /\ Becomes(startSync(World))

NextSyncApi == NextSync \/ SyncOrchestrator_startSync

SpecSyncApi == InitVault /\ [][NextSyncApi]_vars

----------------------------------------------------------------------------
\* Profiles on the desktop: the Dashboard's profile handlers against the
\* store's profile operations (Rust backend, spec 3 and 4.2).

\* DatabaseService.getProfileEntryCount
getProfileEntryCount(rows, profileId) == Cardinality(getActiveEntries(rows, profileId))

\* get_all_profiles: each Profile with its entryCount.
get_all_profiles(db, rows) ==
    {[id |-> id, entryCount |-> getProfileEntryCount(rows, id)] : id \in db.profiles}

\* A delete_profile that leaves the guards to its caller.
delete_profileUnguarded(db, rows, id) ==
    IF id \notin db.profiles THEN [db |-> db, ok |-> FALSE]
    ELSE [db |-> [db EXCEPT !.profiles = @ \ {id}], ok |-> TRUE]

\* delete_profile with the guards of spec 3: not the last profile, and no
\* profile with a non-deleted entry, both looked up when the row is deleted.
delete_profile(db, rows, id) ==
    IF id \notin db.profiles THEN [db |-> db, ok |-> FALSE]
    ELSE IF getProfileEntryCount(rows, id) > 0 THEN [db |-> db, ok |-> FALSE]
    ELSE IF Cardinality(db.profiles) <= 1 THEN [db |-> db, ok |-> FALSE]
    ELSE [db |-> [db EXCEPT !.profiles = @ \ {id}], ok |-> TRUE]

\* Dashboard.loadProfiles: the list, the active profile or else the first of
\* the list, made the active one.
loadProfiles(db, rows, d) ==
    LET profileList == get_all_profiles(db, rows)
        ids == {p.id : p \in profileList}
        active == IF db.active \in ids THEN db.active
                  ELSE IF ids = {} THEN 0
                  ELSE CHOOSE id \in ids : \A other \in ids : id <= other
    IN [db |-> IF active # 0 THEN [db EXCEPT !.active = active] ELSE db,
        dash |-> [d EXCEPT !.profiles = profileList, !.activeProfile = active]]

Dashboard_loadProfiles ==
    /\ LET r == loadProfiles(pdb, store["desktop"], dash) IN
        /\ pdb' = r.db
        /\ dash' = r.dash
    /\ UNCHANGED <<vaultVars, iosAuthVars, sessionVars, chunkVars, syncVars, serviceVars>>

\* Dashboard.handleCreateProfile
Dashboard_handleCreateProfile ==
    /\ pdb.nextId <= MaxProfiles
    /\ LET created == [pdb EXCEPT !.profiles = @ \cup {pdb.nextId}, !.nextId = @ + 1]
           r == loadProfiles(created, store["desktop"], dash)
       IN /\ pdb' = r.db
          /\ dash' = r.dash
    /\ UNCHANGED <<vaultVars, iosAuthVars, sessionVars, chunkVars, syncVars, serviceVars>>

\* Dashboard.handleDeleteProfile, confirmed by the user: the guards on the
\* profile of the list, delete_profile, the switch away from a deleted active
\* profile, loadProfiles.  A failed delete_profile ends in the alert.
Dashboard_handleDeleteProfile(profile) ==
    /\ profile \in dash.profiles
    /\ ~(profile.entryCount > 0)
    /\ ~(Cardinality(dash.profiles) <= 1)
    /\ LET r == delete_profile(pdb, store["desktop"], profile.id)
           remaining == {p.id : p \in dash.profiles} \ {profile.id}
           first == CHOOSE id \in remaining : \A other \in remaining : id <= other
           switched == IF dash.activeProfile = profile.id
                       THEN [db |-> [r.db EXCEPT !.active = first],
                             dash |-> [dash EXCEPT !.activeProfile = first]]
                       ELSE [db |-> r.db, dash |-> dash]
           loaded == loadProfiles(switched.db, store["desktop"], switched.dash)
       IN IF r.ok
          THEN /\ pdb' = loaded.db
               /\ dash' = [loaded.dash EXCEPT !.lastDelete = [id |-> profile.id, ok |-> TRUE]]
          ELSE /\ pdb' = pdb
               /\ dash' = [dash EXCEPT !.lastDelete = [id |-> profile.id, ok |-> FALSE]]
    /\ UNCHANGED <<vaultVars, iosAuthVars, sessionVars, chunkVars, syncVars, serviceVars>>

\* Dashboard.handleSave of a new entry, up to the save_entry it awaits; the
\* loadProfiles that follows is a later step.  The profile is one of the list;
\* the row needs its profile to exist (foreign key).
Dashboard_handleSave(p, u, profile) ==
    /\ profile \in dash.profiles
    /\ profile.id \in pdb.profiles
    /\ IdsOf(store["desktop"], u) = {}
    /\ store' = [store EXCEPT !["desktop"] =
                    Append(@, VaultEntry(u, p, profile.id, now, NULL, 1))]
    /\ UNCHANGED <<now, entries, selectedEntry, lastSync, mstore, lastMerge, encryptionKey>>
    /\ UNCHANGED <<iosAuthVars, sessionVars, extVars>>

InitProfiles == InitVault

NextProfiles ==
    \/ Dashboard_loadProfiles
    \/ Dashboard_handleCreateProfile
    \/ \E profile \in dash.profiles : Dashboard_handleDeleteProfile(profile)
    \/ \E p \in {"p1"}, u \in EnvUuids, profile \in dash.profiles :
            Dashboard_handleSave(p, u, profile)
    \/ \E id \in 1..Cardinality(EnvUuids) : soft_delete(id)

SpecProfiles == InitProfiles /\ [][NextProfiles]_vars

----------------------------------------------------------------------------
\* CryptoService.encrypt and decrypt on every key and plaintext, with one bit
\* of what encrypt returned altered in between, or none.

CryptoService_encrypt(nonce) ==
    /\ gcm.sealed = NoSealed
    /\ gcm' = [gcm EXCEPT !.sealed = encrypt(gcm.plaintext, gcm.key, nonce)]
    /\ UNCHANGED besidesGcm

\* One bit of the stored buffer (ciphertext, then tag) or of the nonce changes.
Alter(part, byte, bit) ==
    /\ gcm.sealed # NoSealed
    /\ gcm.flipped = NoFlip
    /\ gcm.opened = NoResult
    /\ byte \in 1..Len(gcm.sealed[part])
    /\ gcm' = [gcm EXCEPT !.sealed[part] = FlipBit(@, byte, bit),
                          !.flipped = [part |-> part, byte |-> byte, bit |-> bit]]
    /\ UNCHANGED besidesGcm

CryptoService_decrypt ==
    /\ gcm.sealed # NoSealed
    /\ gcm.opened = NoResult
    /\ gcm' = [gcm EXCEPT !.opened = decrypt(gcm.sealed.ciphertext, gcm.sealed.nonce, gcm.key)]
    /\ UNCHANGED besidesGcm

InitCrypto ==
    /\ InitVaultIdle
    /\ mstore = <<>>
    /\ lastMerge = NoMerge
    /\ InitChunkIdle
    /\ InitSyncIdle
    /\ InitProfilesIdle
    /\ gcm \in [key : SymmetricKeys, plaintext : Plaintexts, sealed : {NoSealed},
                flipped : {NoFlip}, opened : {NoResult}]
    /\ InitListingIdle
    /\ InitBlobsIdle
    /\ InitTotpIdle
    /\ InitB32Idle

NextCrypto ==
    \/ \E nonce \in Nonces : CryptoService_encrypt(nonce)
    \/ \E part \in {"ciphertext", "nonce"}, byte \in 1..(MaxPlain + tagByteCount), bit \in 0..7 :
            Alter(part, byte, bit)
    \/ CryptoService_decrypt

SpecCrypto == InitCrypto /\ [][NextCrypto]_vars

----------------------------------------------------------------------------
\* VaultListView.loadEntries over rows sealed under the session's key, rows
\* sealed under another key (another user's), rows with a bit of the blob
\* changed in storage, and legacy rows (plaintext blob, empty nonce).

\* A row is written: sealed under a key, or legacy.
Store_insert(key, nonce) ==
    /\ Len(listing.rows) < MaxRows
    /\ LET plaintext == DataOf(1, Len(listing.rows))
           sealed == encrypt(plaintext, key, nonce)
           row == IF nonce = <<>>
                  THEN [dataBlob |-> plaintext, nonce |-> <<>>, origin |-> [kind |-> "legacy", key |-> 0],
                        plaintext |-> plaintext]
                  ELSE [dataBlob |-> sealed.ciphertext, nonce |-> sealed.nonce,
                        origin |-> [kind |-> "sealed", key |-> key], plaintext |-> plaintext]
       IN listing' = [listing EXCEPT !.rows = Append(@, row), !.loaded = FALSE]
    /\ UNCHANGED besidesListing

\* A bit of a sealed row's blob changes in storage.
Store_alter(i, byte) ==
    /\ i \in 1..Len(listing.rows)
    /\ listing.rows[i].origin.kind = "sealed"
    /\ byte \in 1..Len(listing.rows[i].dataBlob)
    /\ listing' = [listing EXCEPT !.rows[i].dataBlob = FlipBit(@, byte, 0),
                                  !.rows[i].origin.kind = "altered", !.loaded = FALSE]
    /\ UNCHANGED besidesListing

\* VaultListView.loadEntries: nothing without a key; the catch only prints.
VaultListView_loadEntries ==
    /\ listing.key # <<>>
    /\ listing' = [listing EXCEPT !.entries = compactMap(listing.rows, listing.key[1]),
                                  !.loaded = TRUE]
    /\ UNCHANGED besidesListing

InitListing ==
    /\ InitVaultIdle
    /\ mstore = <<>>
    /\ lastMerge = NoMerge
    /\ InitChunkIdle
    /\ InitSyncIdle
    /\ InitProfilesIdle
    /\ InitGcmIdle
    /\ InitBlobsIdle
    /\ InitTotpIdle
    /\ InitB32Idle
    /\ listing \in [rows : {<<>>}, key : {<<key>> : key \in SymmetricKeys},
                    entries : {<<>>}, loaded : {FALSE}]

NextListing ==
    \/ \E key \in SymmetricKeys, nonce \in Nonces \cup {<<>>} : Store_insert(key, nonce)
    \/ \E i \in 1..MaxRows : Store_alter(i, tagByteCount)
    \/ VaultListView_loadEntries

SpecListing == InitListing /\ [][NextListing]_vars

----------------------------------------------------------------------------
\* The blobs the two devices write.  iOS encrypts in the views; the desktop
\* Dashboard of vibevault-desktop hands the plaintext to the core, which
\* encrypts (spec 4.4); the Dashboard of src/components calls save_entry and
\* update_entry with the plaintext as blob and nonce: [].  The store operations
\* insert what they are given (spec 4.2).

\* The session's key on each device.
SessionKey(d) == IF d = "ios" THEN 11 ELSE 12

\* AES.GCM.Nonce() and the core's nonce: 12 bytes of the OS CSPRNG, a value
\* not drawn before under this key.
FreshNonces(key) ==
    {nonce \in {NonceOf(n) : n \in 1..MaxNonces} : drawn[<<key, nonce>>] = 0}

Blob(plaintext, key, nonce) ==
    [dataBlob |-> encrypt(plaintext, key, nonce).ciphertext, nonce |-> nonce,
     plaintext |-> plaintext]

\* AddEntryView.saveEntry: encrypt, then DatabaseService.saveEntry.
AddEntryView_encrypt(plaintext, nonce) ==
    /\ encryptionKey # <<>>
    /\ Len(blobs["ios"]) < MaxRows
    /\ nonce \in FreshNonces(SessionKey("ios"))
    /\ blobs' = [blobs EXCEPT !["ios"] = Append(@, Blob(plaintext, SessionKey("ios"), nonce))]
    /\ drawn' = [drawn EXCEPT ![<<SessionKey("ios"), nonce>>] = @ + 1]
    /\ UNCHANGED besidesBlobs

\* EntryDetailView.updateEntry: encrypt, then DatabaseService.updateEntry.
EntryDetailView_encrypt(id, plaintext, nonce) ==
    /\ encryptionKey # <<>>
    /\ id \in 1..Len(blobs["ios"])
    /\ nonce \in FreshNonces(SessionKey("ios"))
    /\ blobs' = [blobs EXCEPT !["ios"][id] = Blob(plaintext, SessionKey("ios"), nonce)]
    /\ drawn' = [drawn EXCEPT ![<<SessionKey("ios"), nonce>>] = @ + 1]
    /\ UNCHANGED besidesBlobs

\* Dashboard.handleSave of vibevault-desktop: save_entry { uuid, blob,
\* profile_id, token } or update_entry { id, uuid, blob, token }; the core
\* encrypts the blob under the session key with a fresh nonce.
Dashboard_save(id, plaintext, nonce) ==
    /\ nonce \in FreshNonces(SessionKey("desktop"))
    /\ IF id = 0
       THEN /\ Len(blobs["desktop"]) < MaxRows
            /\ blobs' = [blobs EXCEPT !["desktop"] =
                            Append(@, Blob(plaintext, SessionKey("desktop"), nonce))]
       ELSE /\ id \in 1..Len(blobs["desktop"])
            /\ blobs' = [blobs EXCEPT !["desktop"][id] =
                            Blob(plaintext, SessionKey("desktop"), nonce)]
    /\ drawn' = [drawn EXCEPT ![<<SessionKey("desktop"), nonce>>] = @ + 1]
    /\ UNCHANGED besidesBlobs

\* Dashboard.handleSave of src/components: save_entry { uuid, blob, nonce: [],
\* profile_id } or update_entry { id, uuid, blob, nonce: [] }, blob the bytes
\* of the JSON text.
Dashboard_saveWithNonce(id, plaintext) ==
    /\ LET row == [dataBlob |-> plaintext, nonce |-> <<>>, plaintext |-> plaintext] IN
       IF id = 0
       THEN /\ Len(blobs["desktop"]) < MaxRows
            /\ blobs' = [blobs EXCEPT !["desktop"] = Append(@, row)]
       ELSE /\ id \in 1..Len(blobs["desktop"])
            /\ blobs' = [blobs EXCEPT !["desktop"][id] = row]
    /\ UNCHANGED <<drawn, besidesBlobs>>

InitBlobs ==
    /\ InitVaultIdle
    /\ mstore = <<>>
    /\ lastMerge = NoMerge
    /\ InitExtIdle

NextBlobs ==
    \/ \E nonce \in {NonceOf(n) : n \in 1..MaxNonces} : AddEntryView_encrypt(DataOf(1, 0), nonce)
    \/ \E id \in {1}, nonce \in {NonceOf(n) : n \in 1..MaxNonces} :
            EntryDetailView_encrypt(id, DataOf(2, 1), nonce)
    \/ \E id \in {0, 1}, nonce \in {NonceOf(n) : n \in 1..MaxNonces} :
            Dashboard_save(id, DataOf(1, 0), nonce)
    \/ \E id \in {0, 1} : Dashboard_saveWithNonce(id, DataOf(2, 1))

SpecBlobs == InitBlobs /\ [][NextBlobs]_vars

----------------------------------------------------------------------------
\* Dashboard's TOTP timer effect.  A code is written as the number of the
\* 30-second step it was computed for; get_totp_token answers at once with
\* the code of the current step (spec 4.5).

\* The interval's sec
secondsRemaining(unixSeconds) == 30 - (unixSeconds % 30)

\* The detail view opens on an entry with a TOTP secret: fetchCode(), then
\* setInterval.
Dashboard_showDetail ==
    /\ totp.view = "home"
    /\ totp' = [totp EXCEPT !.view = "detail", !.totpCode = totp.t \div 30]
    /\ UNCHANGED besidesTotp

\* The interval's callback, d seconds of Date.now() after the last one (or
\* after the effect ran): setTimeLeft(sec), and fetchCode() if sec === 30.
Dashboard_interval(d) ==
    /\ totp.view = "detail"
    /\ totp.t + d <= MaxUnix
    /\ LET t == totp.t + d
           sec == secondsRemaining(t) IN
       totp' = [totp EXCEPT !.t = t, !.timeLeft = sec, !.ticked = TRUE,
                            !.totpCode = IF sec = 30 THEN t \div 30 ELSE @]
    /\ UNCHANGED besidesTotp

\* The effect's cleanup: clearInterval.
Dashboard_hideDetail ==
    /\ totp.view = "detail"
    /\ totp' = [totp EXCEPT !.view = "home", !.ticked = FALSE]
    /\ UNCHANGED besidesTotp

InitTotp ==
    /\ InitVaultIdle
    /\ mstore = <<>>
    /\ lastMerge = NoMerge
    /\ InitChunkIdle
    /\ InitSyncIdle
    /\ InitProfilesIdle
    /\ InitGcmIdle
    /\ InitListingIdle
    /\ InitBlobsIdle
    /\ InitB32Idle
    /\ totp \in [t : 0..59, view : {"home"}, timeLeft : {30}, totpCode : {NoCode}, ticked : {FALSE}]

\* The callback runs no earlier than 1000 ms after the last one and as late as
\* the event loop lets it: the second of Date.now() has advanced by one or by
\* two.
NextTotp ==
    \/ Dashboard_showDetail
    \/ \E d \in {1, 2} : Dashboard_interval(d)
    \/ Dashboard_hideDetail

SpecTotp == InitTotp /\ [][NextTotp]_vars

----------------------------------------------------------------------------
\* Dashboard.handleSave on an entry with a TOTP secret: the check of the
\* secret in the Dashboard, the backend's get_totp_token (spec 4.5), and the
\* save.

\* String.toUpperCase on one character
toUpperCase(c) == IF c = "a" THEN "A" ELSE IF c = "b" THEN "B" ELSE c

\* A cleanSecret that leaves the case alone.
cleanSecretKeepingCase(totpSecret) ==
    SelectSeq(totpSecret, LAMBDA c : c \notin {" ", "="})

\* cleanSecret: replace(/[\s=]/g, "").toUpperCase()
cleanSecret(totpSecret) ==
    LET stripped == SelectSeq(totpSecret, LAMBDA c : c \notin {" ", "="}) IN
    [i \in 1..Len(stripped) |-> toUpperCase(stripped[i])]

\* base32Regex.test: /^[A-Z2-7]+$/
base32Regex(str) ==
    /\ str # <<>>
    /\ \A i \in 1..Len(str) : str[i] \in {"A", "B", "7"}

\* The value of a Base32 character (RFC 4648).
Base32Value(c) == IF c = "A" THEN 0 ELSE IF c = "B" THEN 1 ELSE 31

\* The backend's tolerance (spec 4.5): whitespace dropped, trailing = padding
\* dropped, case normalized.
RECURSIVE dropPadding(_)
dropPadding(str) ==
    IF str # <<>> /\ str[Len(str)] = "=" THEN dropPadding(SubSeq(str, 1, Len(str) - 1))
    ELSE str

normalizeSecret(secret) ==
    LET spaceless == SelectSeq(secret, LAMBDA c : c # " ")
        unpadded == dropPadding(spaceless) IN
    [i \in 1..Len(unpadded) |-> toUpperCase(unpadded[i])]

\* Base32 decoding: the 5-bit values packed into whole bytes.
RECURSIVE Base32Bits(_)
Base32Bits(str) ==
    IF str = <<>> THEN 0
    ELSE (Base32Bits(SubSeq(str, 1, Len(str) - 1)) * 32) + Base32Value(str[Len(str)])

base32Decode(str) ==
    LET byteCount == (5 * Len(str)) \div 8 IN
    [byteCount |-> byteCount,
     bytes |-> Base32Bits(str) \div (2 ^ ((5 * Len(str)) - (8 * byteCount)))]

\* get_totp_token (spec 4.5): InvalidSecret on a character outside A-Z and
\* 2-7; the code is written as the key it is computed from.
get_totp_token(secret) ==
    LET normal == normalizeSecret(secret) IN
    IF \E i \in 1..Len(normal) : normal[i] \notin {"A", "B", "7"}
    THEN Failure("InvalidSecret")
    ELSE Success(base32Decode(normal))

\* handleSave with a site name and a TOTP secret in the form: the two checks
\* of the secret, then save_entry with the secret as typed.
handleSave(totpSecret) ==
    IF totpSecret # <<>> /\ ~base32Regex(cleanSecret(totpSecret))
    THEN [done |-> TRUE, saved |-> <<>>,
          alert |-> "Invalid TOTP secret key. Only Base32 characters are allowed (A-Z and 2-7)."]
    ELSE IF totpSecret # <<>> /\ ~get_totp_token(totpSecret).ok
    THEN [done |-> TRUE, saved |-> <<>>,
          alert |-> "Invalid TOTP secret key. Please enter a valid Base32 encoded secret."]
    ELSE [done |-> TRUE, saved |-> <<totpSecret>>, alert |-> ""]

\* The user types one more character of the secret.
Dashboard_typeSecret(c) ==
    /\ ~b32.outcome.done
    /\ Len(b32.secret) < MaxSecret
    /\ b32' = [b32 EXCEPT !.secret = Append(@, c)]
    /\ UNCHANGED besidesB32

Dashboard_handleSaveSecret ==
    /\ ~b32.outcome.done
    /\ b32' = [b32 EXCEPT !.outcome = handleSave(b32.secret)]
    /\ UNCHANGED besidesB32

InitBase32 ==
    /\ InitVaultIdle
    /\ mstore = <<>>
    /\ lastMerge = NoMerge
    /\ InitExtIdle

NextBase32 ==
    \/ \E c \in SecretChars : Dashboard_typeSecret(c)
    \/ Dashboard_handleSaveSecret

SpecBase32 == InitBase32 /\ [][NextBase32]_vars

----------------------------------------------------------------------------
\* The vault with two entries: every store operation and the sync, at one
\* instant.

NextEntries ==
    \/ VaultListView_onAppear
    \/ \E e \in entries : VaultListView_select(e)
    \/ \E u \in EnvUuids : AddEntryView_saveEntry("p1", u)
    \/ EntryDetailView_updateEntry("p2")
    \/ EntryDetailView_deleteEntry
    \/ EntryDetailView_cancel
    \/ \E u \in EnvUuids : save_entry("p1", u, activeProfileId)
    \/ \E id \in 1..Cardinality(EnvUuids) : update_entry(id, "p2")
    \/ \E id \in 1..Cardinality(EnvUuids) : soft_delete(id)
    \/ \E from \in Devices, to \in Devices, k \in 0..Cardinality(EnvUuids) : Sync(from, to, k)

SpecEntries == InitVault /\ [][NextEntries]_vars

----------------------------------------------------------------------------
\* C2: merge is last-writer-wins per entry_uuid.  An envelope whose entry_uuid
\* has no local row is inserted, as a tombstone iff is_tombstone; one with a
\* greater sync_version than the local row overwrites it with the envelope's
\* payload, tombstone flag, sync_version and updated_at verbatim; one with a
\* smaller sync_version leaves the store unchanged.
C2_MergeLastWriterWins ==
    [][LET E == lastMerge'.env[1]
           ids == IdsOf(mstore, E.entryUuid) IN
        /\ ids = {} =>
              /\ Len(mstore') = Len(mstore) + 1
              /\ \A i \in 1..Len(mstore) : mstore'[i] = mstore[i]
              /\ Content(mstore'[Len(mstore')]) =
                    [entryUuid |-> E.entryUuid, syncVersion |-> E.syncVersion,
                     updatedAt |-> E.updatedAt, isTombstone |-> E.isTombstone,
                     payload |-> E.payload]
        /\ \A i \in ids :
              /\ E.syncVersion > mstore[i].syncVersion =>
                    /\ Len(mstore') = Len(mstore)
                    /\ \A j \in 1..Len(mstore) : j # i => mstore'[j] = mstore[j]
                    /\ mstore'[i].syncVersion = E.syncVersion
                    /\ mstore'[i].updatedAt = E.updatedAt
                    /\ mstore'[i].payload = E.payload
                    /\ IsTombstone(mstore'[i]) = E.isTombstone
              /\ E.syncVersion < mstore[i].syncVersion => mstore' = mstore
    ]_vars

\* A tombstone with a greater sync_version has overwritten a live row.
C2_Witness ==
    /\ lastMerge.met > 0
    /\ lastMerge.env[1].syncVersion > lastMerge.met
    /\ lastMerge.env[1].isTombstone
    /\ \E i \in IdsOf(mstore, lastMerge.uuid) :
          /\ IsTombstone(mstore[i])
          /\ mstore[i].syncVersion = lastMerge.env[1].syncVersion

\* C3: merge is idempotent and commutative.  Ingesting an envelope twice
\* leaves the store as ingesting it once, and ingesting A then B leaves the
\* store as ingesting B then A, for any two envelopes.
C3_MergeIdempotentCommutative ==
    \A A, B \in Envelopes :
        /\ StoreView(Merge(Merge(mstore, A), A)) = StoreView(Merge(mstore, A))
        /\ StoreView(Merge(Merge(mstore, A), B)) = StoreView(Merge(Merge(mstore, B), A))

----------------------------------------------------------------------------
\* C1: every local mutation of a row (an edit saved from the detail view, a
\* soft-delete, the desktop's update_entry and soft_delete) stores a
\* sync_version strictly greater than the one the row held just before it,
\* whatever edits, soft-deletes and merges came before.
C1_LocalMutationRaisesVersion ==
    [][/\ \A p \in Payloads : EntryDetailView_updateEntry(p) =>
            store'["ios"][selectedEntry[1].id].syncVersion >
                store["ios"][selectedEntry[1].id].syncVersion
       /\ (EntryDetailView_deleteEntry /\ store' # store) =>
            store'["ios"][selectedEntry[1].id].syncVersion >
                store["ios"][selectedEntry[1].id].syncVersion
       /\ \A id \in 1..Cardinality(UUIDs) :
            ((\E p \in Payloads : update_entry(id, p)) \/ soft_delete(id)) =>
                store'["desktop"][id].syncVersion > store["desktop"][id].syncVersion
    ]_vars

\* C4: a full sync X to Y followed by a full sync Y to X, with no local
\* mutation in between, leaves both stores with the same sync_version,
\* updated_at, tombstone flag and payload for every entry_uuid.
C4_RoundTripConverges ==
    [][(/\ lastSync.from # "none"
        /\ lastSync.full
        /\ lastSync'.full
        /\ lastSync'.from = lastSync.to
        /\ lastSync'.to = lastSync.from)
       => StoreView(store'["desktop"]) = StoreView(store'["ios"])
    ]_vars

\* The receiver's copy of envelope E's entry is replaced by E in this step.
ReplacedBy(to, j, E) ==
    /\ Content(store'[to][j]) = Content(RowOf(E))
    /\ Content(store[to][j]) # Content(RowOf(E))

----------------------------------------------------------------------------
\* C6: a vault operation presented with a token whose session has had no
\* touch_activity for longer than IDLE_TIMEOUT returns SessionExpired, and a
\* touch_activity arriving within the window extends the session: a vault
\* operation issued with the session's token less than IDLE_TIMEOUT after
\* that touch succeeds.
C6_SessionExpiration ==
    [][\A i \in 1..Len(calls') :
          (calls'[i].op = "get_all_vault_entries" /\ calls'[i].token = app.sessionToken) =>
              /\ (\A s \in core.sessions :
                     s.token = app.sessionToken => clock - s.last_activity > IDLE_TIMEOUT)
                 => calls'[i].result = "SessionExpired"
              /\ (lastTouch # NULL /\ clock - lastTouch < IDLE_TIMEOUT)
                 => calls'[i].result = "Ok"
    ]_vars

\* The operations that require a session token.
TokenOps == {"lock_vault", "touch_activity", "get_all_vault_entries"}

C8_LockDestroysSession ==
    [][handleLogout => ~Live(core', app.sessionToken, clock')]_vars

\* C9: after MaxFailedUnlocks consecutive failed unlocks for a username, a
\* further attempt for it made during the cooldown (here: at once), the
\* correct password included, fails: it yields neither session nor key.
C9_UnlockRateLimit ==
    [][\A u \in Usernames, p \in Passwords, stored \in BOOLEAN :
          (failures[u] >= MaxFailedUnlocks /\ LoginView_login(u, p, TRUE, stored)) =>
              /\ ~authService'.isAuthenticated
              /\ encryptionKey' = <<>>
    ]_vars

\* C10: register fails whenever a user row exists, whatever the username,
\* and leaves the stored user unchanged; no store holds two user rows.
C10_SingleUser ==
    [][\A u \in Usernames, p \in Passwords :
          (users # {} /\ RegisterView_register(u, p)) =>
              /\ users' = users
              /\ Cardinality(users') <= 1
    ]_vars

\* C11: chunking round-trips.  chunkData of a message of len bytes, the empty
\* one included, yields max(1, ceil(len / 493)) chunks, each with at most 493
\* payload bytes, index 0..total-1 in order, the common total, and the CRC32
\* of its payload; a ChunkReassembler of that total fed those chunks in any
\* order reassembles exactly the message, and nothing else before that.
CeilDiv(n, d) == IF n % d = 0 THEN n \div d ELSE (n \div d) + 1

C11_ChunkRoundTrip ==
    wire # <<>> =>
        /\ Len(wire) = Max2(1, CeilDiv(Len(message), 493))
        /\ \A k \in 1..Len(wire) :
            /\ Len(wire[k].data) <= 493
            /\ wire[k].index = k - 1
            /\ wire[k].total = Len(wire)
            /\ wire[k].crc32 = CRC32_compute(wire[k].data)
        /\ reassembler.total = Len(wire)
        /\ (\A k \in 1..Len(wire) : reassembler.chunks[k] # <<>>)
            => reassemble(reassembler) = Success(message)
        /\ reassembled.ok => reassembled.value = message

\* A message of several chunks is complete with chunk 0 the last to arrive.
C11_Witness ==
    /\ Len(wire) >= 3
    /\ reassembled = Success(message)
    /\ addResult.index = 0
    /\ addResult.result = Success(TRUE)

\* C12: a chunk whose payload does not match its CRC32, or whose total differs
\* from the total of the message being received, makes the receiver abort:
\* the chunk is not kept and the receiver ends in Error.
Rejected(received, frame) ==
    \/ ~fromBytes(frame).ok
    \/ /\ received # <<>>
       /\ fromBytes(received[1]).ok
       /\ fromBytes(frame).value.total # fromBytes(received[1]).value.total

C12_FramingErrorAborts ==
    [][\A frame \in Frames :
        ChunkArrives(frame) /\ Rejected(ble.receivedChunks, frame)
            => ble'.state.tag = "error" /\ ble'.receivedChunks = ble.receivedChunks]_vars

\* C13: when the code entered on the central is not the code the peripheral
\* displays, the peripheral finds the HMAC mismatch and the sync is aborted:
\* the central is neither Paired nor Transferring on that link.
C13_PairingMismatchAborts ==
    peer.verdict = "mismatch" => sync.state.tag \notin {"paired", "transferring"}

\* C14: the session key is cleared after a disconnect, whatever ended the
\* sync: once the link is down and the orchestrator has received every BLE
\* state published to it, it holds no session key.
C14_SessionKeyClearedOnDisconnect ==
    radio.link = "none" /\ sink = <<>> => sync.sessionKey = <<>>

\* C15: after ABORT has been received on SyncControl no further frame is
\* processed: a later data chunk changes neither the received chunks nor
\* their count, and a later control byte, COMPLETE included, changes no
\* state of the sync.
C15_NoFrameAfterAbort ==
    [][abortReceived =>
        /\ \A frame \in Frames : ChunkArrives(frame) => UNCHANGED ble
        /\ \A control \in {ACK, ABORT, COMPLETE} :
                ControlArrives(control) => UNCHANGED <<ble, sync, sink>>]_vars

C17_ErrorLeftOnlyByUser ==
    [][sync.state.tag = "error" /\ sync'.state.tag # "error"
        => SyncView_cancel \/ SyncView_dismiss]_vars

\* C18: a cancel always disconnects: it ends in idle with the BLE connection,
\* a requested one included, and the characteristic handles released, the
\* session key and the buffer of received chunks cleared, and the store as
\* it was.
C18_CancelReleasesEverything ==
    [][SyncView_cancel =>
        /\ sync'.state.tag = "idle"
        /\ sync'.sessionKey = <<>>
        /\ sync'.reassembler = <<>>
        /\ ble'.connectedPeripheral = <<>>
        /\ ble'.characteristics = {}
        /\ ble'.receivedChunks = <<>>
        /\ radio'.link # "connected"
        /\ ~radio'.connectRequested
        /\ store' = store]_vars

Listed(rows, profileId) ==
    {i \in 1..Len(rows) : rows[i].profileId = profileId /\ ~IsTombstone(rows[i])}

C21_EntryUuidImmutable ==
    [][\A d \in Devices :
        /\ Len(store'[d]) >= Len(store[d])
        /\ \A i \in 1..Len(store[d]) : store'[d][i].entryUuid = store[d][i].entryUuid
        /\ \A i \in 1..Len(store'[d]) :
            /\ store'[d][i].entryUuid \in EnvUuids
            /\ \A j \in 1..Len(store'[d]) :
                store'[d][i].entryUuid = store'[d][j].entryUuid => i = j]_vars

\* Both devices hold both entries, in different row order, and the last sync
\* overwrote a row on iOS that had been edited there.
C21_Witness ==
    /\ Len(store["ios"]) = 2
    /\ Len(store["desktop"]) = 2
    /\ store["ios"][1].entryUuid # store["desktop"][1].entryUuid
    /\ lastSync.to = "ios"
    /\ \E o \in lastSync.overwritten : o.version > 1

\* C23: encryption round trip.  For every key and plaintext, decrypting what
\* encrypt returned gives the plaintext back; with one bit of the ciphertext,
\* of the 16-byte tag or of the nonce altered, decrypt fails and returns no
\* data.
C23_EncryptionRoundTrip ==
    gcm.opened # NoResult =>
        IF gcm.flipped = NoFlip
        THEN gcm.opened = Success(gcm.plaintext)
        ELSE ~gcm.opened.ok

\* decrypt has run on a buffer of the longest plaintext whose last ciphertext
\* byte had its top bit altered.
C23_Witness ==
    /\ gcm.opened # NoResult
    /\ gcm.flipped.part = "ciphertext"
    /\ gcm.flipped.byte = Len(gcm.plaintext)
    /\ gcm.flipped.bit = 7
    /\ Len(gcm.plaintext) = MaxPlain

\* C22: the listing tolerates undecryptable rows.  After loadEntries the list
\* holds, in row order, exactly the rows the session's key opens (and the
\* legacy rows), each with its plaintext: a row that fails authentication is
\* dropped and the others are still returned.  No error is shown for a
\* dropped row (the view has no error to show at all).
Opens(row, key) ==
    row.origin.kind = "legacy" \/ (row.origin.kind = "sealed" /\ row.origin.key = key)

C22_ListingDropsUndecryptable ==
    listing.loaded =>
        LET kept == SelectSeq(listing.rows, LAMBDA row : Opens(row, listing.key[1])) IN
        /\ Len(listing.entries) = Len(kept)
        /\ \A i \in 1..Len(kept) :
            /\ listing.entries[i].entry = kept[i]
            /\ listing.entries[i].data = kept[i].plaintext

\* A list loaded from three rows of which one was sealed under another key
\* and one was altered in storage: one entry is shown.
C22_Witness ==
    /\ listing.loaded
    /\ Len(listing.rows) = 3
    /\ Len(listing.entries) = 1
    /\ \E i \in 1..3 : listing.rows[i].origin.kind = "altered"
    /\ \E i \in 1..3 : listing.rows[i].origin.kind = "sealed" /\ listing.rows[i].origin.key # listing.key[1]

\* C24: every stored row holds ciphertext produced under the session's key
\* with a nonce generated for that write.  No row has an empty nonce, every
\* blob opens under the device's session key with its nonce, and no two
\* encryptions under one key used the same nonce.
C24_FreshNonceEveryWrite ==
    /\ \A d \in Devices : \A i \in 1..Len(blobs[d]) :
        /\ blobs[d][i].nonce # <<>>
        /\ decrypt(blobs[d][i].dataBlob, blobs[d][i].nonce, SessionKey(d))
                = Success(blobs[d][i].plaintext)
    /\ \A use \in DOMAIN drawn : drawn[use] <= 1

\* C25: TOTP countdown.  Once the interval has run, at every unix time t the
\* countdown shown is 30 - (t mod 30), in 1..30, it adds up to 30 with the
\* seconds elapsed in the step, it is 1 at t = 59, and the code shown is the
\* code of step floor(t / 30).
C25_TotpCountdown ==
    totp.view = "detail" /\ totp.ticked =>
        /\ totp.timeLeft = 30 - (totp.t % 30)
        /\ totp.timeLeft \in 1..30
        /\ totp.timeLeft + (totp.t % 30) = 30
        /\ (totp.t = 59 => totp.timeLeft = 1)
        /\ totp.totpCode = totp.t \div 30

C27_SessionTerminates ==
    (sync.state.tag \in {"scanning", "pairing", "paired", "transferring"})
        ~> (sync.state.tag \in {"error", "complete", "idle"})

\* C30: a SyncControl byte that is none of the four opcodes changes nothing
\* on the receiver: the orchestrator (state, session key), the BLE manager
\* (state, received chunks, progress), the link and what is published to the
\* orchestrator are all as before.
C30_UnknownOpcodeIgnored ==
    [][\A control \in UnknownOpcodes :
        ControlArrives(control) => UNCHANGED <<sync, ble, radio, sink>>]_vars

\* A byte that is no opcode has arrived during a transfer with a chunk
\* received.
C30_Witness ==
    /\ peer.unknownOpcode
    /\ sync.state.tag = "transferring"
    /\ ble.receivedChunks # <<>>

\* C28: a chunk delivered at an index that is already filled changes nothing
\* on the receiver: the received chunks, the received-chunk count and the
\* state (its completion status) are as they were.
Filled(received, frame) ==
    /\ fromBytes(frame).ok
    /\ \E i \in 1..Len(received) :
        /\ fromBytes(received[i]).ok
        /\ fromBytes(received[i]).value.index = fromBytes(frame).value.index

C28_DuplicateChunkIdempotent ==
    [][\A frame \in Frames :
        ChunkArrives(frame) /\ Filled(ble.receivedChunks, frame)
            => /\ ble'.receivedChunks = ble.receivedChunks
               /\ ble'.syncProgress.chunksReceived = ble.syncProgress.chunksReceived
               /\ ble'.state = ble.state]_vars

\* C29: no endpoint is in state Complete while a chunk of the bundle is still
\* missing on the receiver: when the BLE manager or the orchestrator is
\* Complete, the chunks received parse and fill every index of the total they
\* declare (a bundle has at least one chunk).
AllReceived(received) ==
    /\ received # <<>>
    /\ \A i \in 1..Len(received) : fromBytes(received[i]).ok
    /\ LET total == fromBytes(received[1]).value.total IN
        /\ \A i \in 1..Len(received) : fromBytes(received[i]).value.total = total
        /\ \A index \in 0..(total - 1) :
            \E i \in 1..Len(received) : fromBytes(received[i]).value.index = index

C29_CompleteOnlyWhenAllReceived ==
    (ble.state.tag = "complete" \/ sync.state.tag = "complete")
        => AllReceived(ble.receivedChunks)

\* C31: the central writes its pairing payload only after it has read the
\* peripheral's public key on this link (the read issued on ready has been
\* answered); and a code submitted while no peer public key is held ends in
\* Error, writes nothing to Pairing and derives no session key.
C31_PairingOrder ==
    [][\A code \in Codes :
        SyncView_confirm(code) =>
            /\ (peer.verdict = "none" /\ peer'.verdict # "none")
                    => "pairing" \notin radio.reads
            /\ ble.syncProgress.peerPublicKey = <<>>
                    => /\ sync'.state = Err("No peer public key received")
                       /\ peer'.verdict = peer.verdict
                       /\ sync'.sessionKey = sync.sessionKey]_vars

\* C32: saving an edit from the detail view's copy of an entry whose row has
\* become a tombstone since the view loaded it does not clear deleted_at: the
\* row is still a tombstone and the entry is not in the list the view loads.
C32_EditNeverResurrects ==
    [][\A p \in Payloads :
        (/\ EntryDetailView_updateEntry(p)
         /\ IsTombstone(store["ios"][selectedEntry[1].id]))
            => /\ IsTombstone(store'["ios"][selectedEntry[1].id])
               /\ \A e \in entries' : e.id # selectedEntry[1].id]_vars

\* C33: Complete is terminal: a disconnect of the peripheral after the central
\* has entered complete leaves the BLE manager complete, and the orchestrator
\* stays complete until the user dismisses the sheet.
C33_CompleteIsTerminal ==
    [][/\ (ble.state.tag = "complete" /\ didDisconnectPeripheral)
            => ble'.state.tag = "complete"
       /\ (sync.state.tag = "complete" /\ ~SyncView_dismiss)
            => sync'.state.tag = "complete"]_vars

\* C34: cancel wins over BLE events in flight: from cancel until the next
\* startSync the orchestrator is idle with no session key, whatever published
\* BLE state its sink still receives, and no read, write or subscription is
\* issued meanwhile.
C34_CancelWins ==
    [][(sync.state.tag = "idle" /\ sync.sessionKey = <<>> /\ ~SyncView_scan)
        => /\ sync'.state.tag = "idle"
           /\ sync'.sessionKey = <<>>
           /\ radio'.reads \subseteq radio.reads
           /\ radio'.notify \subseteq radio.notify
           /\ peer'.verdict \in {peer.verdict, "none"}]_vars

\* C35: AuthService is authenticated exactly when it holds an encryption key,
\* in every state; and a login that fails (unknown username, wrong password,
\* malformed encryption salt) leaves isAuthenticated and the key as they were.
C35_AuthenticatedIffKey ==
    [][/\ authService.isAuthenticated <=> encryptionKey # <<>>
       /\ authService'.isAuthenticated <=> encryptionKey' # <<>>
       /\ \A u \in Usernames, p \in Passwords, saltOk \in BOOLEAN, stored \in BOOLEAN :
            (LoginView_login(u, p, saltOk, stored) /\ authService'.error # "")
                => /\ authService'.isAuthenticated = authService.isAuthenticated
                   /\ encryptionKey' = encryptionKey]_vars

\* A login has failed on a malformed encryption salt after an earlier login
\* had stored the key in the Keychain.
C35_Witness ==
    /\ authService.error = "invalidEncryptionSalt"
    /\ keychain # <<>>
    /\ ~authService.isAuthenticated

C36_UiAutoLockFollowsBackend ==
    /\ (app.isAuthenticated /\ ~Live(core, app.sessionToken, clock))
            ~> (~app.isAuthenticated /\ app.sessionToken = NoToken)
    /\ [][sessionPoll =>
            /\ core'.sessions \subseteq core.sessions
            /\ ~Live(core, app.sessionToken, clock)
                => /\ ~app'.isAuthenticated
                   /\ app'.sessionToken = NoToken
                   /\ calls'[Len(calls')].op = "lock_vault"]_vars

\* The poll has found the session expired and has locked the UI.
C36_Witness ==
    /\ ~app.isAuthenticated
    /\ app.sessionToken = NoToken
    /\ Len(calls) = 2
    /\ calls[1].op = "get_all_vault_entries"
    /\ calls[1].result = "SessionExpired"
    /\ calls[2].op = "lock_vault"

\* C38: in the ChunkReassembler receivedCount is the number of filled slots
\* and never exceeds total; addChunk returns true exactly when every slot is
\* filled; a chunk with another total or an index >= total is rejected and
\* leaves the slots and receivedCount as they were; and reassemble fails with
\* Incomplete for as long as a slot is empty.
FilledSlots(r) == {k \in 1..r.total : r.chunks[k] # <<>>}

C38_ReassemblerBookkeeping ==
    [][/\ reassembler'.receivedCount = Cardinality(FilledSlots(reassembler'))
       /\ reassembler'.receivedCount <= reassembler'.total
       /\ \A index \in 0..MaxChunks, d \in {0 - 1, 0, 1} :
            ChunkReassembler_addChunkAt(Min2(index + 1, Len(wire)), index, Len(wire) + d) =>
                IF d # 0 \/ index >= reassembler.total
                THEN ~addResult'.result.ok /\ reassembler' = reassembler
                ELSE addResult'.result =
                        Success(FilledSlots(reassembler') = 1..reassembler'.total)
       /\ (ChunkReassembler_reassemble /\ FilledSlots(reassembler) # 1..reassembler.total)
            => reassembled' = Failure("Incomplete")]_vars

\* A chunk out of range has been rejected by a reassembler that holds some
\* chunks and not all, one of them delivered twice, and reassemble has failed.
C38_Witness ==
    /\ addResult # NoResult
    /\ addResult.result = Failure("Index out of range")
    /\ reassembler.receivedCount > 0
    /\ reassembler.receivedCount < reassembler.total
    /\ reassembled = Failure("Incomplete")

====
